---- MODULE Spec2Model ----
(***************************************************************************)
(* A model of parts of the iggy message broker:                            *)
(*   - the DeletePartitions command and its bytes / string forms            *)
(*     (iggy/src/partitions/delete_partitions.rs),                          *)
(*   - the binary create-stream handler and the state log                   *)
(*     (server/src/binary/handlers/streams/create_stream_handler.rs),       *)
(*   - the HTTP create_user route (server/src/http/users.rs),               *)
(*   - the store-consumer-offset handler                                    *)
(*     (server/src/binary/handlers/consumer_offsets/...),                   *)
(*   - the flush-unsaved-buffer handler                                     *)
(*     (server/src/binary/handlers/messages/...),                           *)
(*   - the validation of the server configuration                           *)
(*     (server/src/configs/validators.rs),                                  *)
(*   - the SDK's decoders of response payloads (sdk/src/binary/mapper.rs),  *)
(*   - the disk archiver (server/src/archiver/disk.rs).                     *)
(*                                                                         *)
(* TLC's integers are 32-bit signed, so a Rust u32 is kept as a pair of     *)
(* 16-bit limbs <<hi, lo>> standing for hi * 65536 + lo; every u32 of the   *)
(* program, 4294967295 included, has exactly one such pair.                 *)
(***************************************************************************)
EXTENDS Integers, Sequences, FiniteSets, TLC

VARIABLES
    \* ---- DeletePartitions command ----
    cmd,        \* the command value under test
    cphase,     \* "new" | "bytes" | "str" | "done"
    wireB,      \* the byte form handed to from_bytes
    wireS,      \* the string form handed to from_str
    wsrc,       \* where the wire form came from: "none" | "as_bytes" | "to_string" | "raw"
    cop,        \* the operation that produced cres: "none" | "validate" | "from_bytes" | "from_str"
    cres,       \* its Result
    \* ---- the broker's readers-writer lock (SharedSystem) ----
    rwWriter,   \* the task holding the write guard, or NoTask
    rwReaders,  \* the tasks holding a read guard
    rwQueue,    \* the tasks awaiting the lock, first in first out
    \* ---- create-stream handlers, the stream registry, the state log ----
    streams,    \* the streams in memory: a set of [id, name]
    stateLog,   \* the state log: a sequence of [seq, user_id, command]
    cs_cmd,     \* per handler: its CreateStream command
    cs_pc,      \* per handler: where it is in handle()
    cs_response,\* per handler: the mapped response (the created stream) or NoStream
    cs_seq,     \* per handler: seq of the state-log entry it appended, 0 when none
    cs_sent,    \* per handler: whether send_ok_response was given the response
    cs_result,  \* per handler: "none" | "Ok" | the step whose error it returned
    \* ---- the HTTP users routes ----
    users,      \* the usernames of the users that exist
    cu_req,     \* per request: [route, username, valid, permitted]
    cu_pc,      \* per request: where it is in its route function
    cu_called,  \* per request: whether the System operation was invoked
    cu_result,  \* per request: "none" | "Ok" | the step whose error it returned
    \* ---- one partition, its consumer offsets, the store-offset handlers ----
    segments,   \* the partition's segments, oldest first, the last one active
    consumer_offsets, \* the stored offsets: a function from the consumers that have one
    so_cmd,     \* per handler: [consumer, offset] of its StoreConsumerOffset
    so_pc,      \* per handler: where it is in handle()
    so_sent,    \* per handler: how many empty OK responses it has sent
    so_result,  \* per handler: "none" | "Ok" | the error it returned
    \* ---- the flush-unsaved-buffer handlers ----
    fl_pc,      \* per handler: where it is in handle()
    fl_sent,    \* per handler: how many empty OK responses it has sent
    fl_result,  \* per handler: "none" | "Ok" | the step whose error it returned
    \* ---- the server configuration and its validation ----
    cfg,        \* the configuration under validation
    cfg_op,     \* "none" | "SegmentConfig" | "ServerConfig": the validate that ran
    cfg_res,    \* its result: "none" | "Ok" | the error
    \* ---- the SDK response decoders ----
    mp_in,      \* what the payload was built from (the encoder's input)
    mp_payload, \* the payload bytes handed to the decoder
    mp_op,      \* "none" | the decoder that ran
    mp_res,     \* its outcome: [tag, value] with tag "Ok" | "Err" | "Panic"
    \* ---- the disk archiver ----
    fs,         \* the file system: path -> "absent" | "data" | "partial" | "truncated"
    ar_files,   \* the files of the archive call
    ar_base,    \* the base_directory the archive calls are given
    ar_pos,     \* the index in ar_files of the file the loop is at
    ar_pc,      \* "idle" | "check" | "mkdir" | "copy" | "returned"
    ar_result,  \* [error, file_path]: ArNone | ArOk | the error returned
    ar_done,    \* the indexes in ar_files of the files this call has copied
    ar_copied,  \* the <<file, base>> some archive call has copied completely
    ar_deleted  \* the source files the sweeper has deleted

cmdVars == <<cmd, cphase, wireB, wireS, wsrc, cop, cres>>

lockVars == <<rwWriter, rwReaders, rwQueue>>

csVars == <<streams, stateLog, cs_cmd, cs_pc, cs_response, cs_seq, cs_sent, cs_result>>

cuVars == <<users, cu_req, cu_pc, cu_called, cu_result>>

soVars == <<segments, consumer_offsets, so_cmd, so_pc, so_sent, so_result>>

flVars == <<fl_pc, fl_sent, fl_result>>

cfgVars == <<cfg, cfg_op, cfg_res>>

mpVars == <<mp_in, mp_payload, mp_op, mp_res>>

arVars == <<fs, ar_files, ar_base, ar_pos, ar_pc, ar_result, ar_done, ar_copied, ar_deleted>>

vars == <<cmd, cphase, wireB, wireS, wsrc, cop, cres,
          rwWriter, rwReaders, rwQueue,
          streams, stateLog, cs_cmd, cs_pc, cs_response, cs_seq, cs_sent, cs_result,
          users, cu_req, cu_pc, cu_called, cu_result,
          segments, consumer_offsets, so_cmd, so_pc, so_sent, so_result,
          fl_pc, fl_sent, fl_result,
          cfg, cfg_op, cfg_res,
          mp_in, mp_payload, mp_op, mp_res,
          fs, ar_files, ar_base, ar_pos, ar_pc, ar_result, ar_done, ar_copied, ar_deleted>>

----------------------------------------------------------------------------
(* Bounds of the model.                                                     *)

\* small ids 0..MaxSmallId are tried next to the u32 edge values
MaxSmallId == 2
\* raw byte inputs are up to 12 + MaxExtraBytes long
MaxExtraBytes == 2
\* create-stream handlers running at once
NumHandlers == 2
\* explicit stream ids are 1..MaxStreamId
MaxStreamId == 2
\* HTTP requests running at once
NumRequests == 2
\* store-consumer-offset handlers running at once
NumStoreHandlers == 2
\* the partition takes appends while its current_offset is below MaxOffset
MaxOffset == 3
\* a segment is rolled over once it holds SegmentMessages messages
SegmentMessages == 2
\* a payload carries up to MaxRecords message or partition records
MaxRecords == 2
\* an archive call is given up to MaxFiles files
MaxFiles == 2
\* store-consumer-offset and flush-unsaved-buffer handlers of each kind running
\* next to the NumHandlers create-stream handlers
NumReadHandlers == 1

----------------------------------------------------------------------------
(* u32 as two 16-bit limbs.                                                 *)

Limb == 2 ^ 16

U32(hi, lo) == <<hi, lo>>

U32Zero == U32(0, 0)

U32IsZero(v) == v[1] = 0 /\ v[2] = 0

\* u32::to_le_bytes: least significant byte first
to_le_bytes(v) ==
    << v[2] % 256, v[2] \div 256, v[1] % 256, v[1] \div 256 >>

\* the same bytes most significant first (what to_be_bytes would give)
to_be_bytes(v) ==
    << v[1] \div 256, v[1] % 256, v[2] \div 256, v[2] % 256 >>

\* u32::from_le_bytes of a 4-byte slice
from_le_bytes(b) ==
    U32(b[3] + 256 * b[4], b[1] + 256 * b[2])

\* the u32 values the commands are built from: small ids and the edges of
\* the byte and limb boundaries, up to u32::MAX
IdSamples ==
    { U32(0, n) : n \in 0..MaxSmallId }
        \cup { U32(0, 256), U32(1, 0), U32(65535, 65535) }

CountSamples ==
    { U32(0, 0), U32(0, 3), U32(0, 258), U32(65535, 65535) }

----------------------------------------------------------------------------
(* Decimal text of a u32: Display of u32 and str::parse::<u32>.             *)

DigitChars == << "0", "1", "2", "3", "4", "5", "6", "7", "8", "9" >>

IsDigit(c) == \E d \in 0..9 : DigitChars[d + 1] = c

DigitVal(c) == CHOOSE d \in 0..9 : DigitChars[d + 1] = c

\* v divided by ten: quotient limbs and remainder
DivMod10(v) ==
    LET t == (v[1] % 10) * Limb + v[2]
    IN  [q |-> U32(v[1] \div 10, t \div 10), r |-> t % 10]

RECURSIVE u32_fmt(_)
\* Display for u32: decimal, no sign, no leading zeros
u32_fmt(v) ==
    IF v[1] = 0 /\ v[2] < 10
        THEN << DigitChars[v[2] + 1] >>
        ELSE LET dm == DivMod10(v)
             IN  u32_fmt(dm.q) \o << DigitChars[dm.r + 1] >>

ParseErr == [ok |-> FALSE, val |-> U32Zero]

RECURSIVE parse_digits(_, _, _)
\* the digit loop of u32::from_str: checked_mul(10) then checked_add(digit)
parse_digits(s, i, acc) ==
    IF i > Len(s) THEN [ok |-> TRUE, val |-> acc]
    ELSE IF ~IsDigit(s[i]) THEN ParseErr
    ELSE LET lo10 == acc[2] * 10 + DigitVal(s[i])
             hi10 == acc[1] * 10 + (lo10 \div Limb)
         IN  IF hi10 >= Limb THEN ParseErr
             ELSE parse_digits(s, i + 1, U32(hi10, lo10 % Limb))

\* str::parse::<u32>: empty fails, a lone sign fails, one leading '+' is
\* accepted, '-' is an invalid digit for an unsigned type
parse_u32(s) ==
    IF Len(s) = 0 THEN ParseErr
    ELSE IF s[1] \in {"+", "-"} /\ Len(s) = 1 THEN ParseErr
    ELSE IF s[1] = "+" THEN parse_digits(s, 2, U32Zero)
    ELSE parse_digits(s, 1, U32Zero)

RECURSIVE split_from(_, _, _)
\* str::split('|') collected: the parts between separators (n separators
\* give n + 1 parts, empty parts included)
split_from(s, i, cur) ==
    IF i > Len(s) THEN << cur >>
    ELSE IF s[i] = "|" THEN << cur >> \o split_from(s, i + 1, << >>)
    ELSE split_from(s, i + 1, Append(cur, s[i]))

split(s) == split_from(s, 1, << >>)

----------------------------------------------------------------------------
(* DeletePartitions.                                                        *)

DeletePartitions(s, t, p) ==
    [stream_id |-> s, topic_id |-> t, partitions_count |-> p]

NoCommand == DeletePartitions(U32Zero, U32Zero, U32Zero)

Ok(c) == [tag |-> "Ok", err |-> "", cmd |-> c]

Err(e) == [tag |-> "Err", err |-> e, cmd |-> NoCommand]

NoResult == [tag |-> "None", err |-> "", cmd |-> NoCommand]

\* a validate that tests the topic id first
validate_topic_first(c) ==
    IF U32IsZero(c.topic_id) THEN Err("InvalidTopicId")
    ELSE IF U32IsZero(c.stream_id) THEN Err("InvalidStreamId")
    ELSE Ok(c)

\* Validatable::validate (Ok carries the command it accepted)
validate(c) ==
    IF U32IsZero(c.stream_id) THEN Err("InvalidStreamId")
    ELSE IF U32IsZero(c.topic_id) THEN Err("InvalidTopicId")
    ELSE Ok(c)

\* FromStr::from_str
from_str(input) ==
    LET parts == split(input)
    IN  IF Len(parts) # 3 THEN Err("InvalidCommand")
        ELSE LET s == parse_u32(parts[1])
                 t == parse_u32(parts[2])
                 p == parse_u32(parts[3])
             IN  IF ~s.ok \/ ~t.ok \/ ~p.ok THEN Err("ParseIntError")
                 ELSE validate(DeletePartitions(s.val, t.val, p.val))

\* an as_bytes writing each field most significant byte first
as_bytes_big_endian(c) ==
    to_be_bytes(c.stream_id) \o to_be_bytes(c.topic_id)
        \o to_be_bytes(c.partitions_count)

\* BytesSerializable::as_bytes
as_bytes(c) ==
    to_le_bytes(c.stream_id) \o to_le_bytes(c.topic_id)
        \o to_le_bytes(c.partitions_count)

\* a from_bytes that only refuses inputs shorter than 12 bytes
from_bytes_min_length(bytes) ==
    IF Len(bytes) < 12 THEN Err("InvalidCommand")
    ELSE validate(DeletePartitions(from_le_bytes(SubSeq(bytes, 1, 4)),
                                   from_le_bytes(SubSeq(bytes, 5, 8)),
                                   from_le_bytes(SubSeq(bytes, 9, 12))))

\* BytesSerializable::from_bytes
from_bytes(bytes) ==
    IF Len(bytes) # 12 THEN Err("InvalidCommand")
    ELSE validate(DeletePartitions(from_le_bytes(SubSeq(bytes, 1, 4)),
                                   from_le_bytes(SubSeq(bytes, 5, 8)),
                                   from_le_bytes(SubSeq(bytes, 9, 12))))

\* a Display writing the topic id before the stream id
to_string_topic_first(c) ==
    u32_fmt(c.topic_id) \o << "|" >> \o u32_fmt(c.stream_id)
        \o << "|" >> \o u32_fmt(c.partitions_count)

\* Display::fmt, "{}|{}|{}"
to_string(c) ==
    u32_fmt(c.stream_id) \o << "|" >> \o u32_fmt(c.topic_id)
        \o << "|" >> \o u32_fmt(c.partitions_count)

----------------------------------------------------------------------------
(* The command under test: built, put in a wire form, read back.            *)

\* byte inputs of every length 0..12+MaxExtraBytes: the command's bytes cut
\* short or followed by extra bytes
RawBytes(c, n) ==
    [i \in 1..n |-> IF i <= 12 THEN as_bytes(c)[i] ELSE 7]

\* string inputs that are no Display output
RawStrings(c) ==
    LET s == u32_fmt(c.stream_id)
        t == u32_fmt(c.topic_id)
        p == u32_fmt(c.partitions_count)
        bar == << "|" >>
    IN  { << >>,
          s \o bar \o t,
          s \o bar \o t \o bar \o p \o bar \o p,
          s \o bar \o bar \o p,
          << "+" >> \o s \o bar \o t \o bar \o p,
          << "0" >> \o s \o bar \o << "0", "0" >> \o t \o bar \o p,
          << "-" >> \o s \o bar \o t \o bar \o p,
          s \o bar \o t \o bar \o << "x" >>,
          s \o bar \o t \o bar \o << "+" >>,
          s \o bar \o t \o bar \o << "4","2","9","4","9","6","7","2","9","6" >>,
          s \o bar \o t \o bar \o << "4","2","9","4","9","6","7","2","9","5" >> }

CmdInit ==
    /\ cmd \in { DeletePartitions(s, t, p) :
                    s \in IdSamples, t \in IdSamples, p \in CountSamples }
    /\ cphase = "new"
    /\ wireB = << >>
    /\ wireS = << >>
    /\ wsrc = "none"
    /\ cop = "none"
    /\ cres = NoResult

\* command.validate()
Validate ==
    /\ cphase = "new"
    /\ cres' = validate(cmd)
    /\ cop' = "validate"
    /\ cphase' = "done"
    /\ UNCHANGED <<cmd, wireB, wireS, wsrc>>
    /\ UNCHANGED <<lockVars, csVars, cuVars, soVars, flVars, cfgVars, mpVars, arVars>>

\* command.as_bytes()
AsBytes ==
    /\ cphase = "new"
    /\ wireB' = as_bytes(cmd)
    /\ wsrc' = "as_bytes"
    /\ cphase' = "bytes"
    /\ UNCHANGED <<cmd, wireS, cop, cres>>
    /\ UNCHANGED <<lockVars, csVars, cuVars, soVars, flVars, cfgVars, mpVars, arVars>>

\* a byte input from elsewhere (a client's frame)
ReceiveBytes ==
    /\ cphase = "new"
    /\ \E n \in 0..(12 + MaxExtraBytes) : wireB' = RawBytes(cmd, n)
    /\ wsrc' = "raw"
    /\ cphase' = "bytes"
    /\ UNCHANGED <<cmd, wireS, cop, cres>>
    /\ UNCHANGED <<lockVars, csVars, cuVars, soVars, flVars, cfgVars, mpVars, arVars>>

\* DeletePartitions::from_bytes(&bytes)
FromBytes ==
    /\ cphase = "bytes"
    /\ cres' = from_bytes(wireB)
    /\ cop' = "from_bytes"
    /\ cphase' = "done"
    /\ UNCHANGED <<cmd, wireB, wireS, wsrc>>
    /\ UNCHANGED <<lockVars, csVars, cuVars, soVars, flVars, cfgVars, mpVars, arVars>>

\* command.to_string()
Display ==
    /\ cphase = "new"
    /\ wireS' = to_string(cmd)
    /\ wsrc' = "to_string"
    /\ cphase' = "str"
    /\ UNCHANGED <<cmd, wireB, cop, cres>>
    /\ UNCHANGED <<lockVars, csVars, cuVars, soVars, flVars, cfgVars, mpVars, arVars>>

\* a string input from elsewhere (a CLI line)
ReceiveString ==
    /\ cphase = "new"
    /\ wireS' \in RawStrings(cmd)
    /\ wsrc' = "raw"
    /\ cphase' = "str"
    /\ UNCHANGED <<cmd, wireB, cop, cres>>
    /\ UNCHANGED <<lockVars, csVars, cuVars, soVars, flVars, cfgVars, mpVars, arVars>>

\* DeletePartitions::from_str(&input)
FromStr ==
    /\ cphase = "str"
    /\ cres' = from_str(wireS)
    /\ cop' = "from_str"
    /\ cphase' = "done"
    /\ UNCHANGED <<cmd, wireB, wireS, wsrc>>
    /\ UNCHANGED <<lockVars, csVars, cuVars, soVars, flVars, cfgVars, mpVars, arVars>>

CmdNext ==
    \/ Validate
    \/ AsBytes
    \/ ReceiveBytes
    \/ FromBytes
    \/ Display
    \/ ReceiveString
    \/ FromStr

----------------------------------------------------------------------------
(* The broker's readers-writer lock: tokio::sync::RwLock, write-preferring, *)
(* waiters served first in, first out.                                      *)

NoTask == << "none", 0 >>

Task(kind, n) == << kind, n >>

LockInit ==
    /\ rwWriter = NoTask
    /\ rwReaders = {}
    /\ rwQueue = << >>

\* t starts awaiting system.read() or system.write()
LockRequest(t, mode) ==
    /\ rwQueue' = Append(rwQueue, [task |-> t, mode |-> mode])
    /\ UNCHANGED <<rwWriter, rwReaders>>

\* the await of t completes: t is the oldest waiter and the guard is free
LockGrant(t, mode) ==
    /\ Len(rwQueue) > 0
    /\ Head(rwQueue) = [task |-> t, mode |-> mode]
    /\ rwWriter = NoTask
    /\ mode = "write" => rwReaders = {}
    /\ rwQueue' = Tail(rwQueue)
    /\ rwWriter' = IF mode = "write" THEN t ELSE rwWriter
    /\ rwReaders' = IF mode = "read" THEN rwReaders \cup {t} ELSE rwReaders

\* t's guard is dropped
LockRelease(t) ==
    /\ rwWriter' = IF rwWriter = t THEN NoTask ELSE rwWriter
    /\ rwReaders' = rwReaders \ {t}
    /\ UNCHANGED rwQueue

----------------------------------------------------------------------------
(* The stream registry and the state log, as the create-stream handler      *)
(* uses them.                                                               *)

Handlers == 1..NumHandlers

StreamNames == { "a", "b" }

\* CreateStream { stream_id: Option<u32>, name }: stream_id 0 stands for None
CreateStream(id, name) == [stream_id |-> id, name |-> name]

CreateStreamCommands ==
    { CreateStream(id, n) : id \in 0..MaxStreamId, n \in StreamNames }

Stream(id, name) == [id |-> id, name |-> name]

NoStream == Stream(0, "")

MaxId(ss) ==
    IF ss = {} THEN 0
    ELSE CHOOSE m \in { s.id : s \in ss } : \A s \in ss : s.id <= m

\* System::create_stream: stream names are unique; an omitted id becomes
\* max_existing_id + 1; an id in use is refused
create_stream(ss, id, name) ==
    IF \E s \in ss : s.name = name
        THEN [ok |-> FALSE, streams |-> ss, stream |-> NoStream]
    ELSE LET new == IF id = 0 THEN MaxId(ss) + 1 ELSE id
         IN  IF \E s \in ss : s.id = new
                 THEN [ok |-> FALSE, streams |-> ss, stream |-> NoStream]
                 ELSE [ok |-> TRUE,
                       streams |-> ss \cup { Stream(new, name) },
                       stream |-> Stream(new, name)]

\* the entry State::apply appends: seq is dense from 1
StateEntry(log, user_id, command) ==
    [seq |-> Len(log) + 1, user_id |-> user_id, command |-> command]

CorruptState == { Stream(0, "CorruptState") }

RECURSIVE replay_from(_, _, _)
\* startup replay: the entries applied in seq order; an entry that fails
\* aborts with CorruptState
replay_from(log, i, ss) ==
    IF i > Len(log) THEN ss
    ELSE LET r == create_stream(ss, log[i].command.stream_id, log[i].command.name)
         IN  IF r.ok THEN replay_from(log, i + 1, r.streams) ELSE CorruptState

replay(log) == replay_from(log, 1, {})

----------------------------------------------------------------------------
(* create_stream_handler::handle, one instance per handler h.               *)

CsTask(h) == Task("create_stream", h)

CsInit ==
    /\ streams = {}
    /\ stateLog = << >>
    /\ cs_cmd \in [Handlers -> CreateStreamCommands]
    /\ cs_pc = [h \in Handlers |-> "start"]
    /\ cs_response = [h \in Handlers |-> NoStream]
    /\ cs_seq = [h \in Handlers |-> 0]
    /\ cs_sent = [h \in Handlers |-> FALSE]
    /\ cs_result = [h \in Handlers |-> "none"]

\* line 24: system.write() is awaited
CsRequestWrite(h) ==
    /\ cs_pc[h] = "start"
    /\ LockRequest(CsTask(h), "write")
    /\ cs_pc' = [cs_pc EXCEPT ![h] = "wait_write"]
    /\ UNCHANGED <<streams, stateLog, cs_cmd, cs_response, cs_seq, cs_sent, cs_result>>
    /\ UNCHANGED <<cmdVars, cuVars, soVars, flVars, cfgVars, mpVars, arVars>>

\* line 24: the write guard is held
CsAcquireWrite(h) ==
    /\ cs_pc[h] = "wait_write"
    /\ LockGrant(CsTask(h), "write")
    /\ cs_pc' = [cs_pc EXCEPT ![h] = "writing"]
    /\ UNCHANGED <<streams, stateLog, cs_cmd, cs_response, cs_seq, cs_sent, cs_result>>
    /\ UNCHANGED <<cmdVars, cuVars, soVars, flVars, cfgVars, mpVars, arVars>>

\* a handler whose write guard lives to the end of handle(): it is still held
\* when system.read() is awaited
CsCreateStream_KeepsWriteGuard(h) ==
    /\ cs_pc[h] = "writing"
    /\ LET r == create_stream(streams, cs_cmd[h].stream_id, cs_cmd[h].name)
       IN  /\ streams' = r.streams
           /\ cs_response' = [cs_response EXCEPT ![h] = r.stream]
           /\ cs_pc' = [cs_pc EXCEPT ![h] = IF r.ok THEN "created" ELSE "done"]
           /\ cs_result' = [cs_result EXCEPT ![h] =
                                IF r.ok THEN "none" ELSE "create_stream"]
           /\ IF r.ok THEN UNCHANGED <<rwWriter, rwReaders, rwQueue>>
                      ELSE LockRelease(CsTask(h))
    /\ UNCHANGED <<stateLog, cs_cmd, cs_seq, cs_sent>>
    /\ UNCHANGED <<cmdVars, cuVars, soVars, flVars, cfgVars, mpVars, arVars>>

\* lines 25-35: system.create_stream under the write guard; on Ok the
\* response is mapped and the block ends, on Err `?` returns; either way the
\* write guard is dropped
CsCreateStream(h) ==
    /\ cs_pc[h] = "writing"
    /\ LET r == create_stream(streams, cs_cmd[h].stream_id, cs_cmd[h].name)
       IN  /\ streams' = r.streams
           /\ cs_response' = [cs_response EXCEPT ![h] = r.stream]
           /\ cs_pc' = [cs_pc EXCEPT ![h] = IF r.ok THEN "created" ELSE "done"]
           /\ cs_result' = [cs_result EXCEPT ![h] =
                                IF r.ok THEN "none" ELSE "create_stream"]
    /\ LockRelease(CsTask(h))
    /\ UNCHANGED <<stateLog, cs_cmd, cs_seq, cs_sent>>
    /\ UNCHANGED <<cmdVars, cuVars, soVars, flVars, cfgVars, mpVars, arVars>>

\* line 37: system.read() is awaited
CsRequestRead(h) ==
    /\ cs_pc[h] = "created"
    /\ LockRequest(CsTask(h), "read")
    /\ cs_pc' = [cs_pc EXCEPT ![h] = "wait_read"]
    /\ UNCHANGED <<streams, stateLog, cs_cmd, cs_response, cs_seq, cs_sent, cs_result>>
    /\ UNCHANGED <<cmdVars, cuVars, soVars, flVars, cfgVars, mpVars, arVars>>

\* line 37: the read guard is held
CsAcquireRead(h) ==
    /\ cs_pc[h] = "wait_read"
    /\ LockGrant(CsTask(h), "read")
    /\ cs_pc' = [cs_pc EXCEPT ![h] = "reading"]
    /\ UNCHANGED <<streams, stateLog, cs_cmd, cs_response, cs_seq, cs_sent, cs_result>>
    /\ UNCHANGED <<cmdVars, cuVars, soVars, flVars, cfgVars, mpVars, arVars>>

\* a handler that answers OK whatever state.apply returned
CsApply_AckAnyway(h) ==
    /\ cs_pc[h] = "reading"
    /\ \E written \in BOOLEAN :
          /\ stateLog' = IF written
                            THEN Append(stateLog, StateEntry(stateLog, h, cs_cmd[h]))
                            ELSE stateLog
          /\ cs_seq' = [cs_seq EXCEPT ![h] = IF written THEN Len(stateLog) + 1 ELSE 0]
    /\ cs_pc' = [cs_pc EXCEPT ![h] = "applied"]
    /\ UNCHANGED <<rwWriter, rwReaders, rwQueue>>
    /\ UNCHANGED <<streams, cs_cmd, cs_response, cs_sent, cs_result>>
    /\ UNCHANGED <<cmdVars, cuVars, soVars, flVars, cfgVars, mpVars, arVars>>

\* lines 38-47: state.apply(user_id, EntryCommand::CreateStream(command))
\* under the read guard; it appends the entry, or fails and `?` returns the
\* error (the read guard is dropped, nothing else is done)
CsApply(h) ==
    /\ cs_pc[h] = "reading"
    /\ \/ /\ stateLog' = Append(stateLog, StateEntry(stateLog, h, cs_cmd[h]))
          /\ cs_seq' = [cs_seq EXCEPT ![h] = Len(stateLog) + 1]
          /\ cs_pc' = [cs_pc EXCEPT ![h] = "applied"]
          /\ UNCHANGED <<rwWriter, rwReaders, rwQueue, cs_result>>
       \/ /\ cs_pc' = [cs_pc EXCEPT ![h] = "done"]
          /\ cs_result' = [cs_result EXCEPT ![h] = "apply"]
          /\ LockRelease(CsTask(h))
          /\ UNCHANGED <<stateLog, cs_seq>>
    /\ UNCHANGED <<streams, cs_cmd, cs_response, cs_sent>>
    /\ UNCHANGED <<cmdVars, cuVars, soVars, flVars, cfgVars, mpVars, arVars>>

\* lines 48-49: sender.send_ok_response(&response); it may fail (the
\* connection is gone) and `?` returns that error; the function ends and the
\* read guard is dropped
CsSendOk(h) ==
    /\ cs_pc[h] = "applied"
    /\ \/ /\ cs_sent' = [cs_sent EXCEPT ![h] = TRUE]
          /\ cs_result' = [cs_result EXCEPT ![h] = "Ok"]
       \/ /\ cs_result' = [cs_result EXCEPT ![h] = "send"]
          /\ UNCHANGED cs_sent
    /\ cs_pc' = [cs_pc EXCEPT ![h] = "done"]
    /\ LockRelease(CsTask(h))
    /\ UNCHANGED <<streams, stateLog, cs_cmd, cs_response, cs_seq>>
    /\ UNCHANGED <<cmdVars, cuVars, soVars, flVars, cfgVars, mpVars, arVars>>

CsNext ==
    \E h \in Handlers :
        \/ CsRequestWrite(h)
        \/ CsAcquireWrite(h)
        \/ CsCreateStream(h)
        \/ CsRequestRead(h)
        \/ CsAcquireRead(h)
        \/ CsApply(h)
        \/ CsSendOk(h)

----------------------------------------------------------------------------
(* http/users.rs: the create_user and login_user routes.                    *)

Requests == 1..NumRequests

Usernames == { "u1", "u2" }

\* a request: its route, the username of its JSON body, whether
\* command.validate() accepts the body, and whether the permissioner lets the
\* resolved user id create users
UserRequests ==
    { [route |-> "create_user", username |-> u, valid |-> v, permitted |-> p] :
          u \in Usernames, v \in BOOLEAN, p \in BOOLEAN }
      \cup
    { [route |-> "login_user", username |-> u, valid |-> v, permitted |-> TRUE] :
          u \in Usernames, v \in BOOLEAN }

CuTask(r) == Task("http", r)

\* System::create_user: usernames are unique
create_user(us, username) ==
    IF username \in us
        THEN [ok |-> FALSE, users |-> us]
        ELSE [ok |-> TRUE, users |-> us \cup { username }]

\* System::login_user: the user must exist (the password check is left out)
login_user(us, username) == username \in us

CuInit ==
    /\ users = {}
    /\ cu_req \in [Requests -> UserRequests]
    /\ cu_pc = [r \in Requests |-> "start"]
    /\ cu_called = [r \in Requests |-> FALSE]
    /\ cu_result = [r \in Requests |-> "none"]

\* lines 27 and 45: command.validate()?, before the lock is asked for
CuValidate(r) ==
    /\ cu_pc[r] = "start"
    /\ IF cu_req[r].valid
          THEN /\ cu_pc' = [cu_pc EXCEPT ![r] = "validated"]
               /\ UNCHANGED cu_result
          ELSE /\ cu_pc' = [cu_pc EXCEPT ![r] = "done"]
               /\ cu_result' = [cu_result EXCEPT ![r] = "validate"]
    /\ UNCHANGED <<users, cu_req, cu_called>>
    /\ UNCHANGED <<lockVars, cmdVars, csVars, soVars, flVars, cfgVars, mpVars, arVars>>

\* lines 29 and 46: system.read() is awaited
CuRequestRead(r) ==
    /\ cu_pc[r] = "validated"
    /\ LockRequest(CuTask(r), "read")
    /\ cu_pc' = [cu_pc EXCEPT ![r] = "wait_read"]
    /\ UNCHANGED <<users, cu_req, cu_called, cu_result>>
    /\ UNCHANGED <<cmdVars, csVars, soVars, flVars, cfgVars, mpVars, arVars>>

\* lines 29 and 46: the read guard is held
CuAcquireRead(r) ==
    /\ cu_pc[r] = "wait_read"
    /\ LockGrant(CuTask(r), "read")
    /\ cu_pc' = [cu_pc EXCEPT ![r] =
                    IF cu_req[r].route = "create_user" THEN "locked" ELSE "permitted"]
    /\ UNCHANGED <<users, cu_req, cu_called, cu_result>>
    /\ UNCHANGED <<cmdVars, csVars, soVars, flVars, cfgVars, mpVars, arVars>>

\* a create_user that goes on after the permissioner refused
CuCheckPermission_Ignored(r) ==
    /\ cu_pc[r] = "locked"
    /\ cu_pc' = [cu_pc EXCEPT ![r] = "permitted"]
    /\ UNCHANGED <<rwWriter, rwReaders, rwQueue, cu_result>>
    /\ UNCHANGED <<users, cu_req, cu_called>>
    /\ UNCHANGED <<cmdVars, csVars, soVars, flVars, cfgVars, mpVars, arVars>>

\* line 30: system.permissioner.create_user(user_id)?; on Err the function
\* returns and the read guard is dropped
CuCheckPermission(r) ==
    /\ cu_pc[r] = "locked"
    /\ IF cu_req[r].permitted
          THEN /\ cu_pc' = [cu_pc EXCEPT ![r] = "permitted"]
               /\ UNCHANGED <<rwWriter, rwReaders, rwQueue, cu_result>>
          ELSE /\ cu_pc' = [cu_pc EXCEPT ![r] = "done"]
               /\ cu_result' = [cu_result EXCEPT ![r] = "permission"]
               /\ LockRelease(CuTask(r))
    /\ UNCHANGED <<users, cu_req, cu_called>>
    /\ UNCHANGED <<cmdVars, csVars, soVars, flVars, cfgVars, mpVars, arVars>>

\* lines 31-37 and 47-49: the System operation is called and runs up to its
\* first await
CuSystemCall(r) ==
    /\ cu_pc[r] = "permitted"
    /\ cu_pc' = [cu_pc EXCEPT ![r] = "in_system"]
    /\ cu_called' = [cu_called EXCEPT ![r] = TRUE]
    /\ UNCHANGED <<users, cu_req, cu_result>>
    /\ UNCHANGED <<lockVars, cmdVars, csVars, soVars, flVars, cfgVars, mpVars, arVars>>

\* lines 37-38 and 49-51: the System operation completes; its Err is
\* returned by `?`, its Ok becomes the status code; the read guard is dropped
CuSystemReturn(r) ==
    /\ cu_pc[r] = "in_system"
    /\ IF cu_req[r].route = "create_user"
          THEN LET c == create_user(users, cu_req[r].username)
               IN  /\ users' = c.users
                   /\ cu_result' = [cu_result EXCEPT ![r] =
                                        IF c.ok THEN "Ok" ELSE "system"]
          ELSE /\ UNCHANGED users
               /\ cu_result' = [cu_result EXCEPT ![r] =
                                    IF login_user(users, cu_req[r].username)
                                        THEN "Ok" ELSE "system"]
    /\ cu_pc' = [cu_pc EXCEPT ![r] = "done"]
    /\ LockRelease(CuTask(r))
    /\ UNCHANGED <<cu_req, cu_called>>
    /\ UNCHANGED <<cmdVars, csVars, soVars, flVars, cfgVars, mpVars, arVars>>

CuNext ==
    \E r \in Requests :
        \/ CuValidate(r)
        \/ CuRequestRead(r)
        \/ CuAcquireRead(r)
        \/ CuCheckPermission(r)
        \/ CuSystemCall(r)
        \/ CuSystemReturn(r)

----------------------------------------------------------------------------
(* One partition and its consumer offsets.                                  *)

Segment(start, current, messages) ==
    [start_offset |-> start, current_offset |-> current, messages |-> messages]

ActiveSegment(segs) == segs[Len(segs)]

\* current_offset_of_partition = active.current_offset
current_offset(segs) == ActiveSegment(segs).current_offset

\* the consumer offsets with offset stored for consumer
store_offset(offsets, consumer, offset) ==
    [c \in DOMAIN offsets \cup { consumer } |->
        IF c = consumer THEN offset ELSE offsets[c]]

Consumers == { 1, 2 }

\* Partition::append of one message: the offset after current_offset (the
\* segment's start_offset when it is empty); a full active segment is sealed
\* first and a new one started at current_offset + 1
append(segs) ==
    LET a == ActiveSegment(segs)
    IN  IF a.messages >= SegmentMessages
            THEN Append(segs, Segment(a.current_offset + 1, a.current_offset + 1, 1))
        ELSE IF a.messages = 0
            THEN [segs EXCEPT ![Len(segs)] = Segment(a.start_offset, a.start_offset, 1)]
        ELSE [segs EXCEPT ![Len(segs)] =
                    Segment(a.start_offset, a.current_offset + 1, a.messages + 1)]

\* Partition::purge: every segment but the active one is deleted, the active
\* one is truncated to empty, current_offset is reset to its start
purge(segs) ==
    LET a == ActiveSegment(segs)
    IN  << Segment(a.start_offset, a.start_offset, 0) >>

\* Partition::store_consumer_offset: the offset must be within
\* 0..current_offset
offset_is_valid(offset, current) == 0 <= offset /\ offset <= current

----------------------------------------------------------------------------
(* store_consumer_offset_handler::handle, one instance per handler h, next  *)
(* to appends and purges of the partition.                                  *)

StoreHandlers == 1..NumStoreHandlers

StoreConsumerOffset(consumer, offset) == [consumer |-> consumer, offset |-> offset]

\* so_cmd of a handler that holds no command (before it arrives, after
\* handle() has returned and dropped it)
NoStoreCommand == StoreConsumerOffset(0, 0)

SoTask(h) == Task("store_consumer_offset", h)

SoInit ==
    /\ segments = << Segment(0, 0, 0) >>
    /\ consumer_offsets = << >>
    /\ so_cmd = [h \in StoreHandlers |-> NoStoreCommand]
    /\ so_pc = [h \in StoreHandlers |-> "idle"]
    /\ so_sent = [h \in StoreHandlers |-> 0]
    /\ so_result = [h \in StoreHandlers |-> "none"]

\* a producer appends one message, under the broker read guard and the
\* partition's mutex
PartitionAppend ==
    /\ rwWriter = NoTask
    /\ current_offset(segments) < MaxOffset
    /\ segments' = append(segments)
    /\ UNCHANGED <<consumer_offsets, so_cmd, so_pc, so_sent, so_result>>
    /\ UNCHANGED <<lockVars, cmdVars, csVars, cuVars, flVars, cfgVars, mpVars, arVars>>

\* the partition is purged, with no other task inside the broker lock
PartitionPurge ==
    /\ rwWriter = NoTask
    /\ rwReaders = {}
    /\ segments' = purge(segments)
    /\ UNCHANGED <<consumer_offsets, so_cmd, so_pc, so_sent, so_result>>
    /\ UNCHANGED <<lockVars, cmdVars, csVars, cuVars, flVars, cfgVars, mpVars, arVars>>

\* lines 10-17: a StoreConsumerOffset command arrives and system.read() is
\* awaited
SoRequestRead(h) ==
    /\ so_pc[h] = "idle"
    /\ \E c \in Consumers, o \in 0..(MaxOffset + 1) :
          so_cmd' = [so_cmd EXCEPT ![h] = StoreConsumerOffset(c, o)]
    /\ LockRequest(SoTask(h), "read")
    /\ so_pc' = [so_pc EXCEPT ![h] = "wait_read"]
    /\ UNCHANGED <<segments, consumer_offsets, so_sent, so_result>>
    /\ UNCHANGED <<cmdVars, csVars, cuVars, flVars, cfgVars, mpVars, arVars>>

\* line 17: the read guard is held
SoAcquireRead(h) ==
    /\ so_pc[h] = "wait_read"
    /\ LockGrant(SoTask(h), "read")
    /\ so_pc' = [so_pc EXCEPT ![h] = "locked"]
    /\ UNCHANGED <<segments, consumer_offsets, so_cmd, so_sent, so_result>>
    /\ UNCHANGED <<cmdVars, csVars, cuVars, flVars, cfgVars, mpVars, arVars>>

\* lines 18-30: system.store_consumer_offset validates the offset against
\* the partition's current_offset; InvalidOffset is returned by `?` and the
\* read guard is dropped
SoValidate(h) ==
    /\ so_pc[h] = "locked"
    /\ IF offset_is_valid(so_cmd[h].offset, current_offset(segments))
          THEN /\ so_pc' = [so_pc EXCEPT ![h] = "valid"]
               /\ UNCHANGED <<rwWriter, rwReaders, rwQueue, so_result>>
               /\ UNCHANGED so_cmd
          ELSE /\ so_pc' = [so_pc EXCEPT ![h] = "done"]
               /\ so_result' = [so_result EXCEPT ![h] = "InvalidOffset"]
               /\ so_cmd' = [so_cmd EXCEPT ![h] = NoStoreCommand]
               /\ LockRelease(SoTask(h))
    /\ UNCHANGED <<segments, consumer_offsets, so_sent>>
    /\ UNCHANGED <<cmdVars, csVars, cuVars, flVars, cfgVars, mpVars, arVars>>

\* lines 18-30: system.store_consumer_offset stores (and persists) the offset
SoPersist(h) ==
    /\ so_pc[h] = "valid"
    /\ consumer_offsets' =
          store_offset(consumer_offsets, so_cmd[h].consumer, so_cmd[h].offset)
    /\ so_pc' = [so_pc EXCEPT ![h] = "stored"]
    /\ UNCHANGED <<segments, so_cmd, so_sent, so_result>>
    /\ UNCHANGED <<lockVars, cmdVars, csVars, cuVars, flVars, cfgVars, mpVars, arVars>>

\* lines 31-33: sender.send_empty_ok_response(); it may fail and `?` returns
\* that error; the function ends and the read guard is dropped
SoSendOk(h) ==
    /\ so_pc[h] = "stored"
    /\ \/ /\ so_sent' = [so_sent EXCEPT ![h] = so_sent[h] + 1]
          /\ so_result' = [so_result EXCEPT ![h] = "Ok"]
       \/ /\ so_result' = [so_result EXCEPT ![h] = "send"]
          /\ UNCHANGED so_sent
    /\ so_pc' = [so_pc EXCEPT ![h] = "done"]
    /\ so_cmd' = [so_cmd EXCEPT ![h] = NoStoreCommand]
    /\ LockRelease(SoTask(h))
    /\ UNCHANGED <<segments, consumer_offsets>>
    /\ UNCHANGED <<cmdVars, csVars, cuVars, flVars, cfgVars, mpVars, arVars>>

SoNext ==
    \/ PartitionAppend
    \/ PartitionPurge
    \/ \E h \in StoreHandlers :
          \/ SoRequestRead(h)
          \/ SoAcquireRead(h)
          \/ SoValidate(h)
          \/ SoPersist(h)
          \/ SoSendOk(h)

----------------------------------------------------------------------------
(* flush_unsaved_buffer_handler::handle, one instance per handler h.        *)

FlTask(h) == Task("flush_unsaved_buffer", h)

\* lines 11-18: a FlushUnsavedBuffer command arrives and system.read() is
\* awaited
FlRequestRead(h) ==
    /\ fl_pc[h] = "start"
    /\ LockRequest(FlTask(h), "read")
    /\ fl_pc' = [fl_pc EXCEPT ![h] = "wait_read"]
    /\ UNCHANGED <<fl_sent, fl_result>>
    /\ UNCHANGED <<cmdVars, csVars, cuVars, soVars, cfgVars, mpVars, arVars>>

\* line 18: the read guard is held
FlAcquireRead(h) ==
    /\ fl_pc[h] = "wait_read"
    /\ LockGrant(FlTask(h), "read")
    /\ fl_pc' = [fl_pc EXCEPT ![h] = "locked"]
    /\ UNCHANGED <<fl_sent, fl_result>>
    /\ UNCHANGED <<cmdVars, csVars, cuVars, soVars, cfgVars, mpVars, arVars>>

\* a handler whose read guard ends with the call of the system operation
FlFlush_DropsGuard(h) ==
    /\ fl_pc[h] = "locked"
    /\ \/ /\ fl_pc' = [fl_pc EXCEPT ![h] = "flushed"]
          /\ UNCHANGED fl_result
       \/ /\ fl_pc' = [fl_pc EXCEPT ![h] = "done"]
          /\ fl_result' = [fl_result EXCEPT ![h] = "flush_unsaved_buffer"]
    /\ LockRelease(FlTask(h))
    /\ UNCHANGED fl_sent
    /\ UNCHANGED <<cmdVars, csVars, cuVars, soVars, cfgVars, mpVars, arVars>>

\* lines 19-31: system.flush_unsaved_buffer(...) under the read guard; it
\* returns Ok, or fails and `?` returns the error (the read guard is dropped)
FlFlush(h) ==
    /\ fl_pc[h] = "locked"
    /\ \/ /\ fl_pc' = [fl_pc EXCEPT ![h] = "flushed"]
          /\ UNCHANGED <<rwWriter, rwReaders, rwQueue, fl_result>>
       \/ /\ fl_pc' = [fl_pc EXCEPT ![h] = "done"]
          /\ fl_result' = [fl_result EXCEPT ![h] = "flush_unsaved_buffer"]
          /\ LockRelease(FlTask(h))
    /\ UNCHANGED fl_sent
    /\ UNCHANGED <<cmdVars, csVars, cuVars, soVars, cfgVars, mpVars, arVars>>

\* lines 32-34: sender.send_empty_ok_response(); it may fail and `?` returns
\* that error; the function ends and the read guard is dropped
FlSendOk(h) ==
    /\ fl_pc[h] = "flushed"
    /\ \/ /\ fl_sent' = [fl_sent EXCEPT ![h] = fl_sent[h] + 1]
          /\ fl_result' = [fl_result EXCEPT ![h] = "Ok"]
       \/ /\ fl_result' = [fl_result EXCEPT ![h] = "send"]
          /\ UNCHANGED fl_sent
    /\ fl_pc' = [fl_pc EXCEPT ![h] = "done"]
    /\ LockRelease(FlTask(h))
    /\ UNCHANGED <<cmdVars, csVars, cuVars, soVars, cfgVars, mpVars, arVars>>

----------------------------------------------------------------------------
(* configs/validators.rs: SegmentConfig and ServerConfig validation.  A u64 *)
(* is four 16-bit limbs, most significant first.                            *)

U64(a, b, c, d) == <<a, b, c, d>>

\* `x as u32` of a u64: the low 32 bits
as_u32(x) == U32(x[3], x[4])

\* u32 > u32
U32Gt(x, y) == x[1] > y[1] \/ (x[1] = y[1] /\ x[2] > y[2])

RECURSIVE LimbsLt(_, _, _)
\* x < y for two unsigned integers of as many limbs, compared from limb i
LimbsLt(x, y, i) ==
    IF i > Len(x) THEN FALSE
    ELSE IF x[i] # y[i] THEN x[i] < y[i]
    ELSE LimbsLt(x, y, i + 1)

\* u64 < u64
U64Lt(x, y) == LimbsLt(x, y, 1)

U64_MAX == U64(Limb - 1, Limb - 1, Limb - 1, Limb - 1)

\* segment::MAX_SIZE_BYTES: the cap 2^31 - 1 on the bytes of a segment
MAX_SIZE_BYTES == U32(Limb \div 2 - 1, Limb - 1)

\* the byte sizes configurations are built from: around 0, around the cap,
\* around 2^32 and up to u64::MAX
SizeSamples ==
    { U64(0, 0, 0, 0), U64(0, 0, 0, 1),
      U64(0, 0, MAX_SIZE_BYTES[1], MAX_SIZE_BYTES[2]),
      U64(0, 0, MAX_SIZE_BYTES[1] + 1, 0),
      U64(0, 0, Limb - 1, Limb - 1),
      U64(0, 1, 0, 0), U64(0, 1, 0, 1),
      U64(0, 1, MAX_SIZE_BYTES[1] + 1, 0),
      U64_MAX }

\* MaxTopicSize::{ServerDefault, Unlimited, Custom(size)}
MaxTopicSize ==
    { [kind |-> "ServerDefault", bytes |-> U64(0, 0, 0, 0)],
      [kind |-> "Unlimited", bytes |-> U64(0, 0, 0, 0)] }
    \cup { [kind |-> "Custom", bytes |-> b] : b \in SizeSamples }

\* IggyExpiry, by variant
IggyExpiry == { "ServerDefault", "NeverExpire", "ExpireDuration" }

\* a ServerConfig: the fields ServerConfig::validate reads, and for the
\* sub-configurations validated by their own impl the result of that validate
ServerConfigs ==
    [ data_maintenance : { "Ok", "InvalidConfiguration" },
      personal_access_token : { "Ok", "InvalidConfiguration" },
      cache : { "Ok", "CacheConfigValidationFailure" },
      telemetry : { "Ok", "InvalidConfiguration" },
      segment_size : SizeSamples,
      message_expiry : IggyExpiry,
      topic_max_size : MaxTopicSize,
      http_enabled : BOOLEAN,
      jwt_access_token_expiry : IggyExpiry ]

\* impl Validatable for SegmentConfig: the size is cast to u32, then compared
SegmentConfig_validate(size) ==
    IF U32Gt(as_u32(size), MAX_SIZE_BYTES)
        THEN "InvalidConfiguration"
        ELSE "Ok"

\* the topic size ServerConfig::validate compares: Custom bytes, u64::MAX for
\* Unlimited
topic_size(m) == IF m.kind = "Custom" THEN m.bytes ELSE U64_MAX

\* a ServerConfig::validate without the topic size / segment size comparison
ServerConfig_validate_no_size_check(c) ==
    IF c.data_maintenance # "Ok" THEN c.data_maintenance
    ELSE IF c.personal_access_token # "Ok" THEN c.personal_access_token
    ELSE IF SegmentConfig_validate(c.segment_size) # "Ok"
        THEN SegmentConfig_validate(c.segment_size)
    ELSE IF c.cache # "Ok" THEN c.cache
    ELSE IF c.telemetry # "Ok" THEN c.telemetry
    ELSE IF c.topic_max_size.kind = "ServerDefault" THEN "InvalidConfiguration"
    ELSE IF c.message_expiry = "ServerDefault" THEN "InvalidConfiguration"
    ELSE IF c.http_enabled /\ c.jwt_access_token_expiry = "ServerDefault"
        THEN "InvalidConfiguration"
    ELSE "Ok"

\* impl Validatable for ServerConfig: the sub-validators in order (compression
\* always passes), then the topic size, the message expiry, the JWT expiry
\* when HTTP is enabled, and topic size against segment size
ServerConfig_validate(c) ==
    IF c.data_maintenance # "Ok" THEN c.data_maintenance
    ELSE IF c.personal_access_token # "Ok" THEN c.personal_access_token
    ELSE IF SegmentConfig_validate(c.segment_size) # "Ok"
        THEN SegmentConfig_validate(c.segment_size)
    ELSE IF c.cache # "Ok" THEN c.cache
    ELSE IF c.telemetry # "Ok" THEN c.telemetry
    ELSE IF c.topic_max_size.kind = "ServerDefault" THEN "InvalidConfiguration"
    ELSE IF c.message_expiry = "ServerDefault" THEN "InvalidConfiguration"
    ELSE IF c.http_enabled /\ c.jwt_access_token_expiry = "ServerDefault"
        THEN "InvalidConfiguration"
    ELSE IF U64Lt(topic_size(c.topic_max_size), c.segment_size)
        THEN "InvalidConfiguration"
    ELSE "Ok"

CfgInit ==
    /\ cfg \in ServerConfigs
    /\ cfg_op = "none"
    /\ cfg_res = "none"

\* self.system.segment.validate()
SegmentConfigValidate ==
    /\ cfg_op = "none"
    /\ cfg_op' = "SegmentConfig"
    /\ cfg_res' = SegmentConfig_validate(cfg.segment_size)
    /\ UNCHANGED cfg
    /\ UNCHANGED <<cmdVars, lockVars, csVars, cuVars, soVars, flVars, mpVars, arVars>>

\* server_config.validate()
ServerConfigValidate ==
    /\ cfg_op = "none"
    /\ cfg_op' = "ServerConfig"
    /\ cfg_res' = ServerConfig_validate(cfg)
    /\ UNCHANGED cfg
    /\ UNCHANGED <<cmdVars, lockVars, csVars, cuVars, soVars, flVars, mpVars, arVars>>

CfgNext ==
    \/ SegmentConfigValidate
    \/ ServerConfigValidate

----------------------------------------------------------------------------
(* sdk/src/binary/mapper.rs: the decoders of response payloads.  An outcome *)
(* is Ok(value), Err(error) or a panic (an index out of range aborts the    *)
(* call).                                                                   *)

MpOk(v) == [tag |-> "Ok", value |-> v]

MpErr(e) == [tag |-> "Err", value |-> e]

MpPanic == [tag |-> "Panic", value |-> "range end index out of range"]

MpNone == [tag |-> "None", value |-> "none"]

\* payload[a..b] is in range
InRange(payload, a, b) == a <= b /\ b <= Len(payload)

\* payload[a..b]
Slice(payload, a, b) == SubSeq(payload, a + 1, b)

\* uN::from_le_bytes of a slice of 2, 4, 8 or 16 bytes: its 16-bit limbs, most
\* significant first
le_limbs(b) ==
    [k \in 1..(Len(b) \div 2) |->
        b[Len(b) - 2 * k + 1] + 256 * b[Len(b) - 2 * k + 2]]

\* the little-endian bytes of an unsigned integer given by its limbs
limbs_to_le_bytes(v) ==
    [j \in 1..(2 * Len(v)) |->
        LET k == Len(v) - ((j - 1) \div 2)
        IN  IF j % 2 = 1 THEN v[k] % 256 ELSE v[k] \div 256]

\* std::str::from_utf8 on names made of ASCII bytes and the byte 0xFF (which
\* no UTF-8 text contains)
from_utf8_ok(b) == \A i \in 1..Len(b) : b[i] < 128

\* a decoder that reads the offset before the consumer id
map_offset_offset_first(payload) ==
    IF ~InRange(payload, 0, 8) \/ ~InRange(payload, 8, 12) THEN MpPanic
    ELSE MpOk([consumer_id |-> from_le_bytes(Slice(payload, 8, 12)),
               offset |-> le_limbs(Slice(payload, 0, 8))])

\* map_offset (lines 15-22): two slices of the payload, each aborts the call
\* when it is out of range
map_offset(payload) ==
    IF ~InRange(payload, 0, 4) \/ ~InRange(payload, 4, 12) THEN MpPanic
    ELSE MpOk([consumer_id |-> from_le_bytes(Slice(payload, 0, 4)),
               offset |-> le_limbs(Slice(payload, 4, 12))])

\* const PROPERTIES_SIZE: usize = 36 (line 64)
PROPERTIES_SIZE == 36

Message(offset, timestamp, id, length, payload) ==
    [offset |-> offset, timestamp |-> timestamp, id |-> id,
     length |-> length, payload |-> payload]

RECURSIVE insert_by(_, _, _, _)
\* m placed in the sorted sequence xs after every element whose key is not
\* greater (a stable sort_by on the field key)
insert_by(xs, m, key, i) ==
    IF i > Len(xs) THEN Append(xs, m)
    ELSE IF LimbsLt(m[key], xs[i][key], 1)
        THEN SubSeq(xs, 1, i - 1) \o << m >> \o SubSeq(xs, i, Len(xs))
    ELSE insert_by(xs, m, key, i + 1)

RECURSIVE sort_by(_, _)
\* xs.sort_by(|x, y| x.key.cmp(&y.key))
sort_by(xs, key) ==
    IF Len(xs) = 0 THEN << >>
    ELSE insert_by(sort_by(SubSeq(xs, 1, Len(xs) - 1), key), xs[Len(xs)], key, 1)

RECURSIVE map_messages_loop(_, _, _)
\* the while loop of map_messages (lines 68-95)
map_messages_loop(payload, position, messages) ==
    LET length == Len(payload)
    IN  IF ~(position < length) THEN MpOk(sort_by(messages, "offset"))
        ELSE IF ~InRange(payload, position, position + PROPERTIES_SIZE) THEN MpPanic
        ELSE
          LET offset == le_limbs(Slice(payload, position, position + 8))
              timestamp == le_limbs(Slice(payload, position + 8, position + 16))
              id == le_limbs(Slice(payload, position + 16, position + 32))
              message_length ==
                  from_le_bytes(Slice(payload, position + 32, position + PROPERTIES_SIZE))
              start == position + PROPERTIES_SIZE
              beyond == start > length
                        \/ message_length[1] > 0
                        \/ start + message_length[2] > length
          IN  IF beyond THEN MpOk(sort_by(messages, "offset"))
              ELSE
                LET end == start + message_length[2]
                    pushed == Append(messages,
                                  Message(offset, timestamp, id, message_length,
                                          Slice(payload, start, end)))
                IN  IF end + PROPERTIES_SIZE >= length
                        THEN MpOk(sort_by(pushed, "offset"))
                        ELSE map_messages_loop(payload, end, pushed)

\* map_messages (lines 59-99)
map_messages(payload) ==
    IF Len(payload) = 0 THEN MpOk(<< >>)
    ELSE map_messages_loop(payload, 4, << >>)

\* map_to_stream (lines 144-158)
map_to_stream(payload, position) ==
    IF ~InRange(payload, position, position + 12) THEN MpPanic
    ELSE
      LET id == from_le_bytes(Slice(payload, position, position + 4))
          topics_count == from_le_bytes(Slice(payload, position + 4, position + 8))
          name_length == from_le_bytes(Slice(payload, position + 8, position + 12))
      IN  IF name_length[1] > 0
             \/ ~InRange(payload, position + 12, position + 12 + name_length[2])
              THEN MpPanic
          ELSE
            LET name == Slice(payload, position + 12, position + 12 + name_length[2])
            IN  IF ~from_utf8_ok(name) THEN MpErr("Utf8Error")
                ELSE MpOk([item |-> [id |-> id, topics_count |-> topics_count,
                                     name |-> name],
                           read_bytes |-> 4 + 4 + 4 + name_length[2]])

\* map_to_topic (lines 203-217)
map_to_topic(payload, position) ==
    IF ~InRange(payload, position, position + 12) THEN MpPanic
    ELSE
      LET id == from_le_bytes(Slice(payload, position, position + 4))
          partitions_count == from_le_bytes(Slice(payload, position + 4, position + 8))
          name_length == from_le_bytes(Slice(payload, position + 8, position + 12))
      IN  IF name_length[1] > 0
             \/ ~InRange(payload, position + 12, position + 12 + name_length[2])
              THEN MpPanic
          ELSE
            LET name == Slice(payload, position + 12, position + 12 + name_length[2])
            IN  IF ~from_utf8_ok(name) THEN MpErr("Utf8Error")
                ELSE MpOk([item |-> [id |-> id, partitions_count |-> partitions_count,
                                     name |-> name],
                           read_bytes |-> 4 + 4 + 4 + name_length[2]])

\* map_to_partition (lines 219-233)
map_to_partition(payload, position) ==
    IF ~InRange(payload, position, position + 24) THEN MpPanic
    ELSE MpOk([item |-> [id |-> from_le_bytes(Slice(payload, position, position + 4)),
                         segments_count |->
                             from_le_bytes(Slice(payload, position + 4, position + 8)),
                         current_offset |->
                             le_limbs(Slice(payload, position + 8, position + 16)),
                         size_bytes |->
                             le_limbs(Slice(payload, position + 16, position + 24))],
               read_bytes |-> 4 + 4 + 8 + 8])

\* TopicDetails { id, name, partitions_count: partitions.len() as u32, partitions }
TopicDetails(topic, partitions) ==
    [id |-> topic.id, name |-> topic.name,
     partitions_count |-> U32(0, Len(partitions)),
     partitions |-> sort_by(partitions, "id")]

RECURSIVE map_topic_loop(_, _, _, _)
\* the while loop of map_topic (lines 184-191)
map_topic_loop(payload, topic, position, partitions) ==
    IF ~(position < Len(payload)) THEN MpOk(TopicDetails(topic, partitions))
    ELSE
      LET r == map_to_partition(payload, position)
      IN  IF r.tag # "Ok" THEN r
          ELSE IF position + r.value.read_bytes >= Len(payload)
              THEN MpOk(TopicDetails(topic, Append(partitions, r.value.item)))
          ELSE map_topic_loop(payload, topic, position + r.value.read_bytes,
                              Append(partitions, r.value.item))

\* map_topic (lines 180-201): the header is decoded by map_to_stream
map_topic(payload) ==
    LET r == map_to_stream(payload, 0)
    IN  IF r.tag # "Ok" THEN r
        ELSE map_topic_loop(payload, r.value.item, r.value.read_bytes, << >>)

\* the payloads under test: what the broker would send for an offset, for a
\* list of messages (with a truncated tail) and for a topic, and cut-off
\* prefixes of those

SeqsUpTo(S, n) == UNION { [1..k -> S] : k \in 0..n }

RECURSIVE Flatten(_)
Flatten(ss) == IF Len(ss) = 0 THEN << >> ELSE Head(ss) \o Flatten(Tail(ss))

Take(b, n) == SubSeq(b, 1, IF n < Len(b) THEN n ELSE Len(b))

ZeroBytes(n) == [i \in 1..n |-> 0]

\* consumer_id u32 | offset u64
encode_offset(consumer_id, offset) ==
    to_le_bytes(consumer_id) \o limbs_to_le_bytes(offset)

\* offset u64 | timestamp u64 | id u128 | length u32 | payload
encode_message(m) ==
    limbs_to_le_bytes(m.offset) \o limbs_to_le_bytes(m.timestamp)
    \o limbs_to_le_bytes(m.id) \o to_le_bytes(m.length) \o m.payload

\* id u32 | segments_count u32 | current_offset u64 | size_bytes u64
encode_partition(q) ==
    to_le_bytes(q.id) \o to_le_bytes(q.segments_count)
    \o limbs_to_le_bytes(q.current_offset) \o limbs_to_le_bytes(q.size_bytes)

\* id u32 | partitions_count u32 | name_length u32 | name
encode_topic_header(t) ==
    to_le_bytes(t.id) \o to_le_bytes(t.partitions_count)
    \o to_le_bytes(U32(0, Len(t.name))) \o t.name

MessageSample(k, body) ==
    Message(U64(0, 0, 0, k), U64(0, 0, 1, k), <<0, 0, 0, 0, 0, 0, 0, k>>,
            U32(0, Len(body)), body)

MessageSamples ==
    { MessageSample(k, body) : k \in 1..MaxRecords, body \in { << >>, << 170 >> } }

PartitionSamples ==
    { [id |-> U32(0, k), segments_count |-> U32(0, 1),
       current_offset |-> U64(0, 0, 0, 5), size_bytes |-> U64(0, 0, 0, 64)] :
      k \in 1..MaxRecords }

TopicHeaderSamples ==
    { [id |-> U32(0, 1), partitions_count |-> U32(0, c), name |-> n] :
      c \in 0..MaxRecords, n \in { << >>, << 116 >>, << 116, 49 >>, << 255 >> } }

NoTopicHeader == [id |-> U32Zero, partitions_count |-> U32Zero, name |-> << >>]

\* the lengths at which the record after the last complete one is cut off
TailLengths == { 0, 1, PROPERTIES_SIZE - 1, PROPERTIES_SIZE }

MpInput(kind, consumer_id, offset, messages, tail, topic, partitions, len) ==
    [kind |-> kind, consumer_id |-> consumer_id, offset |-> offset,
     messages |-> messages, tail |-> tail, topic |-> topic,
     partitions |-> partitions, len |-> len]

MpInputs ==
    { MpInput("offset", c, o, << >>, 0, NoTopicHeader, << >>, n) :
        c \in { U32(0, 0), U32(0, 7), U32(1, 2), U32(Limb - 1, Limb - 1) },
        o \in { U64(0, 0, 0, 99), U64(1, 2, 3, 4), U64_MAX },
        n \in 0..(12 + MaxExtraBytes) }
    \cup
    { MpInput("messages", U32Zero, U64(0, 0, 0, 0), ms, t, NoTopicHeader, << >>, 0) :
        ms \in SeqsUpTo(MessageSamples, MaxRecords), t \in TailLengths }
    \cup
    { MpInput("cut messages", U32Zero, U64(0, 0, 0, 0),
              << MessageSample(1, << 170, 187 >>) >>, 0, NoTopicHeader, << >>, n) :
        n \in 0..(4 + PROPERTIES_SIZE + 1) }
    \cup
    { MpInput("topic", U32Zero, U64(0, 0, 0, 0), << >>, 0, t, ps, 0) :
        t \in TopicHeaderSamples, ps \in SeqsUpTo(PartitionSamples, MaxRecords) }

\* the bytes of an input
MpPayload(in) ==
    LET messages == to_le_bytes(U32(0, Len(in.messages)))
                    \o Flatten([i \in 1..Len(in.messages) |-> encode_message(in.messages[i])])
    IN  CASE in.kind = "offset" ->
                Take(encode_offset(in.consumer_id, in.offset) \o ZeroBytes(MaxExtraBytes),
                     in.len)
          [] in.kind = "messages" ->
                messages \o Take(encode_message(MessageSample(9, << 204 >>)), in.tail)
          [] in.kind = "cut messages" -> Take(messages, in.len)
          [] in.kind = "topic" ->
                encode_topic_header(in.topic)
                \o Flatten([i \in 1..Len(in.partitions) |-> encode_partition(in.partitions[i])])

MpInit ==
    /\ mp_in \in MpInputs
    /\ mp_payload = MpPayload(mp_in)
    /\ mp_op = "none"
    /\ mp_res = MpNone

\* map_offset(payload)
MapOffset ==
    /\ mp_op = "none"
    /\ mp_op' = "map_offset"
    /\ mp_res' = map_offset(mp_payload)
    /\ UNCHANGED <<mp_in, mp_payload>>
    /\ UNCHANGED <<cmdVars, lockVars, csVars, cuVars, soVars, flVars, cfgVars, arVars>>

\* map_messages(payload)
MapMessages ==
    /\ mp_op = "none"
    /\ mp_op' = "map_messages"
    /\ mp_res' = map_messages(mp_payload)
    /\ UNCHANGED <<mp_in, mp_payload>>
    /\ UNCHANGED <<cmdVars, lockVars, csVars, cuVars, soVars, flVars, cfgVars, arVars>>

\* map_topic(payload)
MapTopic ==
    /\ mp_op = "none"
    /\ mp_op' = "map_topic"
    /\ mp_res' = map_topic(mp_payload)
    /\ UNCHANGED <<mp_in, mp_payload>>
    /\ UNCHANGED <<cmdVars, lockVars, csVars, cuVars, soVars, flVars, cfgVars, arVars>>

\* map_to_stream(payload, position) and map_to_topic(payload, position), as
\* map_streams and map_topics call them
MapToStream ==
    /\ mp_op = "none"
    /\ \E position \in 0..Len(mp_payload) :
          /\ mp_op' = "map_to_stream"
          /\ mp_res' = map_to_stream(mp_payload, position)
    /\ UNCHANGED <<mp_in, mp_payload>>
    /\ UNCHANGED <<cmdVars, lockVars, csVars, cuVars, soVars, flVars, cfgVars, arVars>>

MapToTopic ==
    /\ mp_op = "none"
    /\ \E position \in 0..Len(mp_payload) :
          /\ mp_op' = "map_to_topic"
          /\ mp_res' = map_to_topic(mp_payload, position)
    /\ UNCHANGED <<mp_in, mp_payload>>
    /\ UNCHANGED <<cmdVars, lockVars, csVars, cuVars, soVars, flVars, cfgVars, arVars>>

MpNext ==
    \/ MapOffset
    \/ MapMessages
    \/ MapTopic
    \/ MapToStream
    \/ MapToTopic

----------------------------------------------------------------------------
(* archiver/disk.rs: the disk archiver over a file system.                  *)

\* the files archive and is_archived are called with: two paths relative to
\* the working directory and one absolute path
Files == { "a.log", "b.log", "/c.log" }

IsAbsolute(file) == file = "/c.log"

\* base_directory: None (taken as "") or Some("base")
Bases == { "", "base" }

\* Path::new(file)
SourcePath(file) == << "", "", file >>

\* Path::new(&self.config.path).join(base_directory).join(file): joining an
\* absolute path replaces the path joined to
DestinationPath(file, base) ==
    IF IsAbsolute(file) THEN << "", "", file >>
    ELSE << "archive", base, file >>

Paths ==
    { SourcePath(f) : f \in Files }
    \cup { DestinationPath(f, b) : f \in Files, b \in Bases }

\* Path::exists
exists(files, path) == files[path] # "absent"

\* DiskArchiver::is_archived (lines 33-44)
is_archived(files, file, base) == exists(files, DestinationPath(file, base))

\* Result<(), ServerArchiverError>, and "none" while the call has not returned
ArError(error, file) == [error |-> error, file_path |-> file]

ArOk == ArError("Ok", "")

ArNone == ArError("none", "")

ArInit ==
    /\ \E present \in SUBSET Files :
          fs = [p \in Paths |->
                    IF \E f \in present : p = SourcePath(f) THEN "data" ELSE "absent"]
    /\ ar_files = << >>
    /\ ar_base \in Bases
    /\ ar_pos = 1
    /\ ar_pc = "idle"
    /\ ar_result = ArNone
    /\ ar_done = {}
    /\ ar_copied = {}
    /\ ar_deleted = {}

\* lines 46-52: archive(files, base_directory) is called; the caller archives
\* under one base_directory throughout
ArCall ==
    /\ ar_pc \in { "idle", "returned" }
    /\ \E files \in SeqsUpTo(Files, MaxFiles) : ar_files' = files
    /\ ar_pos' = 1
    /\ ar_pc' = "check"
    /\ ar_result' = ArNone
    /\ ar_done' = {}
    /\ UNCHANGED <<fs, ar_base, ar_copied, ar_deleted>>
    /\ UNCHANGED <<cmdVars, lockVars, csVars, cuVars, soVars, flVars, cfgVars, mpVars>>

\* a loop that goes on to the next file when the source is missing
ArCheck_SkipsMissing ==
    /\ ar_pc = "check"
    /\ IF ar_pos > Len(ar_files)
          THEN /\ ar_pc' = "returned"
               /\ ar_result' = ArOk
               /\ UNCHANGED ar_pos
       ELSE IF ~exists(fs, SourcePath(ar_files[ar_pos]))
          THEN /\ ar_pos' = ar_pos + 1
               /\ UNCHANGED <<ar_pc, ar_result>>
       ELSE /\ ar_pc' = "mkdir"
            /\ UNCHANGED <<ar_result, ar_pos>>
    /\ UNCHANGED <<fs, ar_files, ar_base, ar_done, ar_copied, ar_deleted>>
    /\ UNCHANGED <<cmdVars, lockVars, csVars, cuVars, soVars, flVars, cfgVars, mpVars>>

\* lines 52-59 and 75: the loop is over (Ok), or the next file's source is
\* missing (FileToArchiveNotFound is returned), or the file is taken up
ArCheck ==
    /\ ar_pc = "check"
    /\ IF ar_pos > Len(ar_files)
          THEN /\ ar_pc' = "returned"
               /\ ar_result' = ArOk
       ELSE IF ~exists(fs, SourcePath(ar_files[ar_pos]))
          THEN /\ ar_pc' = "returned"
               /\ ar_result' = ArError("FileToArchiveNotFound", ar_files[ar_pos])
       ELSE /\ ar_pc' = "mkdir"
            /\ UNCHANGED ar_result
    /\ UNCHANGED <<fs, ar_files, ar_base, ar_pos, ar_done, ar_copied, ar_deleted>>
    /\ UNCHANGED <<cmdVars, lockVars, csVars, cuVars, soVars, flVars, cfgVars, mpVars>>

\* lines 61-68: fs::create_dir_all(destination.parent()); an I/O error is
\* returned by `?`
ArCreateDir ==
    /\ ar_pc = "mkdir"
    /\ \/ /\ ar_pc' = "copy"
          /\ UNCHANGED ar_result
       \/ /\ ar_pc' = "returned"
          /\ ar_result' = ArError("IoError", ar_files[ar_pos])
    /\ UNCHANGED <<fs, ar_files, ar_base, ar_pos, ar_done, ar_copied, ar_deleted>>
    /\ UNCHANGED <<cmdVars, lockVars, csVars, cuVars, soVars, flVars, cfgVars, mpVars>>

\* lines 69-73: fs::copy(source, destination).  It creates (or truncates) the
\* destination and writes the source's bytes: a copy of a file onto itself
\* may leave it truncated, a copy that fails may leave nothing or a partial
\* destination, a copy of a source that is gone by now fails and leaves the
\* destination alone; an I/O error is returned by `?`
ArCopy ==
    /\ ar_pc = "copy"
    /\ LET file == ar_files[ar_pos]
           source == SourcePath(file)
           destination == DestinationPath(file, ar_base)
       IN  \/ /\ exists(fs, source)
              /\ \E content \in IF destination = source
                                   THEN { fs[source], "truncated" }
                                   ELSE { fs[source] } :
                     fs' = [fs EXCEPT ![destination] = content]
              /\ ar_done' = ar_done \cup { ar_pos }
              /\ ar_copied' = ar_copied \cup { << file, ar_base >> }
              /\ ar_pos' = ar_pos + 1
              /\ ar_pc' = "check"
              /\ UNCHANGED ar_result
           \/ /\ \E content \in IF ~exists(fs, source) THEN { fs[destination] }
                                ELSE IF destination = source
                                   THEN { fs[source], "truncated" }
                                   ELSE { fs[destination], "partial" } :
                     fs' = [fs EXCEPT ![destination] = content]
              /\ ar_pc' = "returned"
              /\ ar_result' = ArError("IoError", file)
              /\ UNCHANGED <<ar_done, ar_copied, ar_pos>>
    /\ UNCHANGED <<ar_files, ar_base, ar_deleted>>
    /\ UNCHANGED <<cmdVars, lockVars, csVars, cuVars, soVars, flVars, cfgVars, mpVars>>

\* the retention sweep: a sealed segment's file is deleted once is_archived
\* says it is archived
SweepSegment ==
    /\ \E file \in Files, base \in Bases :
          /\ exists(fs, SourcePath(file))
          /\ is_archived(fs, file, base)
          /\ fs' = [fs EXCEPT ![SourcePath(file)] = "absent"]
          /\ ar_deleted' = ar_deleted \cup { file }
    /\ UNCHANGED <<ar_files, ar_base, ar_pos, ar_pc, ar_result, ar_done, ar_copied>>
    /\ UNCHANGED <<cmdVars, lockVars, csVars, cuVars, soVars, flVars, cfgVars, mpVars>>

ArNext ==
    \/ ArCall
    \/ ArCheck
    \/ ArCreateDir
    \/ ArCopy
    \/ SweepSegment

----------------------------------------------------------------------------
(* Each part at rest, for the specifications that do not run it.            *)

CmdIdle ==
    /\ cmd = NoCommand
    /\ cphase = "off"
    /\ wireB = << >>
    /\ wireS = << >>
    /\ wsrc = "none"
    /\ cop = "none"
    /\ cres = NoResult

CsIdle ==
    /\ streams = {}
    /\ stateLog = << >>
    /\ cs_cmd = << >>
    /\ cs_pc = << >>
    /\ cs_response = << >>
    /\ cs_seq = << >>
    /\ cs_sent = << >>
    /\ cs_result = << >>

CuIdle ==
    /\ users = {}
    /\ cu_req = << >>
    /\ cu_pc = << >>
    /\ cu_called = << >>
    /\ cu_result = << >>

SoIdle ==
    /\ segments = << >>
    /\ consumer_offsets = << >>
    /\ so_cmd = << >>
    /\ so_pc = << >>
    /\ so_sent = << >>
    /\ so_result = << >>

FlIdle ==
    /\ fl_pc = << >>
    /\ fl_sent = << >>
    /\ fl_result = << >>

CfgIdle ==
    /\ cfg = << >>
    /\ cfg_op = "off"
    /\ cfg_res = "none"

MpIdle ==
    /\ mp_in = << >>
    /\ mp_payload = << >>
    /\ mp_op = "off"
    /\ mp_res = MpNone

ArIdle ==
    /\ fs = << >>
    /\ ar_files = << >>
    /\ ar_base = ""
    /\ ar_pos = 1
    /\ ar_pc = "off"
    /\ ar_result = ArNone
    /\ ar_done = {}
    /\ ar_copied = {}
    /\ ar_deleted = {}

\* the flush handlers, the configuration, the decoders and the archiver at rest
RestIdle == FlIdle /\ CfgIdle /\ MpIdle /\ ArIdle

----------------------------------------------------------------------------
(* The three kinds of binary handlers over one broker lock.                 *)

ReadHandlers == 1..NumReadHandlers

MixedInit ==
    /\ streams = {}
    /\ stateLog = << >>
    /\ cs_cmd \in [Handlers -> { CreateStream(0, n) : n \in StreamNames }]
    /\ cs_pc = [h \in Handlers |-> "start"]
    /\ cs_response = [h \in Handlers |-> NoStream]
    /\ cs_seq = [h \in Handlers |-> 0]
    /\ cs_sent = [h \in Handlers |-> FALSE]
    /\ cs_result = [h \in Handlers |-> "none"]
    /\ segments = << Segment(0, 0, 0) >>
    /\ consumer_offsets = << >>
    /\ so_cmd = [h \in ReadHandlers |-> NoStoreCommand]
    /\ so_pc = [h \in ReadHandlers |-> "idle"]
    /\ so_sent = [h \in ReadHandlers |-> 0]
    /\ so_result = [h \in ReadHandlers |-> "none"]
    /\ fl_pc = [h \in ReadHandlers |-> "start"]
    /\ fl_sent = [h \in ReadHandlers |-> 0]
    /\ fl_result = [h \in ReadHandlers |-> "none"]

MixedNext ==
    \/ \E h \in Handlers :
          \/ CsRequestWrite(h)
          \/ CsAcquireWrite(h)
          \/ CsCreateStream(h)
          \/ CsRequestRead(h)
          \/ CsAcquireRead(h)
          \/ CsApply(h)
          \/ CsSendOk(h)
    \/ \E h \in ReadHandlers :
          \/ SoRequestRead(h)
          \/ SoAcquireRead(h)
          \/ SoValidate(h)
          \/ SoPersist(h)
          \/ SoSendOk(h)
          \/ FlRequestRead(h)
          \/ FlAcquireRead(h)
          \/ FlFlush(h)
          \/ FlSendOk(h)

----------------------------------------------------------------------------
(* The specifications.                                                      *)

InitCmd == CmdInit /\ LockInit /\ CsIdle /\ CuIdle /\ SoIdle /\ RestIdle

\* the DeletePartitions command and its two wire forms
SpecCmd == InitCmd /\ [][CmdNext]_vars

InitStreams == CsInit /\ LockInit /\ CmdIdle /\ CuIdle /\ SoIdle /\ RestIdle

\* concurrent create-stream handlers over one broker
SpecStreams == InitStreams /\ [][CsNext]_vars

InitUsers == CuInit /\ LockInit /\ CmdIdle /\ CsIdle /\ SoIdle /\ RestIdle

\* concurrent requests to the HTTP users routes
SpecUsers == InitUsers /\ [][CuNext]_vars

InitOffsets == SoInit /\ LockInit /\ CmdIdle /\ CsIdle /\ CuIdle /\ RestIdle

\* store-consumer-offset handlers next to appends and purges of a partition
SpecOffsets == InitOffsets /\ [][SoNext]_vars

InitConfig ==
    CfgInit /\ LockInit /\ CmdIdle /\ CsIdle /\ CuIdle /\ SoIdle
    /\ FlIdle /\ MpIdle /\ ArIdle

\* a configuration and the validate called on it
SpecConfig == InitConfig /\ [][CfgNext]_vars

InitMapper ==
    MpInit /\ LockInit /\ CmdIdle /\ CsIdle /\ CuIdle /\ SoIdle
    /\ FlIdle /\ CfgIdle /\ ArIdle

\* a response payload and the decoder called on it
SpecMapper == InitMapper /\ [][MpNext]_vars

InitArchiver ==
    ArInit /\ LockInit /\ CmdIdle /\ CsIdle /\ CuIdle /\ SoIdle
    /\ FlIdle /\ CfgIdle /\ MpIdle

\* archive calls and the retention sweep over one file system
SpecArchiver == InitArchiver /\ [][ArNext]_vars

InitHandlers == MixedInit /\ LockInit /\ CmdIdle /\ CuIdle /\ CfgIdle /\ MpIdle /\ ArIdle

\* create-stream, store-consumer-offset and flush-unsaved-buffer handlers as
\* tasks of one runtime: a task that can take a step is eventually run
SpecHandlers == InitHandlers /\ [][MixedNext]_vars /\ WF_vars(MixedNext)

----------------------------------------------------------------------------
(* DeletePartitions: the claims.                                            *)

ValidIds(c) == ~U32IsZero(c.stream_id) /\ ~U32IsZero(c.topic_id)

BytesRoundTripDone == cop = "from_bytes" /\ wsrc = "as_bytes"

StringRoundTripDone == cop = "from_str" /\ wsrc = "to_string"

\* C1 as stated: for every command C, whatever its three u32 fields,
\* from_bytes(C.as_bytes()) is Ok(C).
C1_BytesRoundTripEveryCommand ==
    BytesRoundTripDone => cres = Ok(cmd)

\* C1 as amended: for every command C whose stream_id and topic_id are not 0,
\* from_bytes(C.as_bytes()) is Ok(C); when one of the two ids is 0 it is an
\* Err (the validation inside from_bytes refuses the command).
C1_BytesRoundTripValidCommand ==
    BytesRoundTripDone =>
        IF ValidIds(cmd) THEN cres = Ok(cmd) ELSE cres.tag = "Err"

\* a round trip through bytes of a valid command whose fields use all four
\* bytes, and more than one byte
C1_Witness ==
    /\ BytesRoundTripDone
    /\ cmd.stream_id = U32(65535, 65535)
    /\ cmd.topic_id = U32(1, 0)
    /\ cmd.partitions_count = U32(0, 258)
    /\ cres.tag = "Ok"

\* C2 as stated: for every command C, from_str(C.to_string()) is Ok(C).
C2_StringRoundTripEveryCommand ==
    StringRoundTripDone => cres = Ok(cmd)

\* C2 as amended: for every command C whose stream_id and topic_id are not 0,
\* from_str(C.to_string()) is Ok(C), to_string being "stream|topic|count" in
\* decimal; when one of the two ids is 0 it is an Err.
C2_StringRoundTripValidCommand ==
    StringRoundTripDone =>
        IF ValidIds(cmd) THEN cres = Ok(cmd) ELSE cres.tag = "Err"

\* a round trip through the string form of a valid command with u32::MAX in it
C2_Witness ==
    /\ StringRoundTripDone
    /\ cmd.stream_id = U32(0, 2)
    /\ cmd.topic_id = U32(1, 0)
    /\ cmd.partitions_count = U32(65535, 65535)
    /\ wireS = << "2", "|", "6", "5", "5", "3", "6", "|",
                  "4", "2", "9", "4", "9", "6", "7", "2", "9", "5" >>
    /\ cres.tag = "Ok"

\* the 16-bit limb a byte pair stands for, low byte first
LimbAt(b, i) == b[i] + 256 * b[i + 1]

\* C3: as_bytes gives exactly 12 bytes, stream_id then topic_id then
\* partitions_count, each as 4 little-endian bytes; from_bytes answers
\* InvalidCommand to every input whose length is not 12.
C3_BytesLayoutAndLength ==
    /\ wsrc = "as_bytes" =>
          /\ Len(wireB) = 12
          /\ \A i \in 1..12 : wireB[i] \in 0..255
          /\ LimbAt(wireB, 1) = cmd.stream_id[2]
          /\ LimbAt(wireB, 3) = cmd.stream_id[1]
          /\ LimbAt(wireB, 5) = cmd.topic_id[2]
          /\ LimbAt(wireB, 7) = cmd.topic_id[1]
          /\ LimbAt(wireB, 9) = cmd.partitions_count[2]
          /\ LimbAt(wireB, 11) = cmd.partitions_count[1]
    /\ (cop = "from_bytes" /\ Len(wireB) # 12) => cres = Err("InvalidCommand")

\* the bytes of {stream_id: 1, topic_id: 2, partitions_count: 3} followed by
\* one byte too many, refused
C3_Witness ==
    /\ cop = "from_bytes"
    /\ cmd = DeletePartitions(U32(0, 1), U32(0, 2), U32(0, 3))
    /\ wireB = << 1, 0, 0, 0, 2, 0, 0, 0, 3, 0, 0, 0, 7 >>
    /\ cres = Err("InvalidCommand")

\* C4: a zero stream_id is InvalidStreamId (also when topic_id is 0 too), a
\* zero topic_id with a nonzero stream_id is InvalidTopicId, from validate(),
\* from_bytes() and from_str() alike; no input at all makes from_bytes or
\* from_str return Ok with a zero stream_id or topic_id.
C4_ZeroIdsRefused ==
    /\ (cop = "validate" \/ BytesRoundTripDone \/ StringRoundTripDone) =>
          /\ U32IsZero(cmd.stream_id) => cres = Err("InvalidStreamId")
          /\ (~U32IsZero(cmd.stream_id) /\ U32IsZero(cmd.topic_id))
                => cres = Err("InvalidTopicId")
    /\ cres.tag = "Ok" => ValidIds(cres.cmd)

\* "0|0|3" read by from_str: both ids are 0 and the error is InvalidStreamId
C4_Witness ==
    /\ StringRoundTripDone
    /\ wireS = << "0", "|", "0", "|", "3" >>
    /\ cres = Err("InvalidStreamId")

----------------------------------------------------------------------------
(* The create-stream handler: the claims.                                   *)

AllHandlersDone == \A h \in Handlers : cs_pc[h] = "done"

StreamNamesInMemory == { s.name : s \in streams }

StreamNamesInLog == { stateLog[i].command.name : i \in 1..Len(stateLog) }

\* C5: once the handlers have returned, one of them with an error, the
\* streams in memory are the streams recorded in the state log (a failed
\* state.apply does not leave its stream behind in memory).
C5_ErrorLeavesMemoryEqualToLog ==
    (AllHandlersDone /\ \E h \in Handlers : cs_result[h] # "Ok")
        => StreamNamesInMemory = StreamNamesInLog

\* C6: once the concurrent handlers have returned, none of them with a
\* failed state.apply, replaying the state log in seq order gives the streams
\* the broker holds in memory: the same ids bound to the same names.
C6_ReplayGivesLiveTopology ==
    (AllHandlersDone /\ \A h \in Handlers : cs_result[h] # "apply")
        => replay(stateLog) = streams

\* C7: an OK response is sent only by a handler whose stream is in memory and
\* whose CreateStream entry is in the state log; a handler whose
\* create_stream or state.apply failed has sent nothing.
C7_OkOnlyAfterCreateAndApply ==
    \A h \in Handlers :
        /\ cs_sent[h] =>
              /\ cs_response[h] \in streams
              /\ cs_response[h].name = cs_cmd[h].name
              /\ cs_seq[h] \in 1..Len(stateLog)
              /\ stateLog[cs_seq[h]].command = cs_cmd[h]
        /\ cs_result[h] \in {"create_stream", "apply"} => ~cs_sent[h]
        /\ (cs_pc[h] = "applied" \/ cs_result[h] \in {"Ok", "send"})
              => cs_seq[h] \in 1..Len(stateLog)

\* one handler has answered OK, another has failed in state.apply and
\* answered nothing
C7_Witness ==
    \E h, g \in Handlers :
        /\ cs_sent[h] /\ cs_result[h] = "Ok"
        /\ cs_result[g] = "apply" /\ ~cs_sent[g]

----------------------------------------------------------------------------
(* The HTTP create_user route: the claims.                                  *)

\* r holds a guard of the broker lock
InsideLock(r) == cu_pc[r] \in { "locked", "permitted", "in_system" }

InCreateUser(r) == cu_req[r].route = "create_user" /\ cu_pc[r] = "in_system"

\* C8: while system.create_user runs for a request, that request holds the
\* write side of the broker lock, and no other request (a create_user or a
\* read-path one) is inside the lock.
C8_CreateUserHoldsWriteSide ==
    \A r \in Requests :
        InCreateUser(r) =>
            /\ rwWriter = CuTask(r)
            /\ \A q \in Requests \ {r} : ~InsideLock(q)

\* two create_user requests are inside system.create_user at the same time,
\* both holding a read guard
C8_Witness ==
    \E r, q \in Requests :
        /\ r # q
        /\ InCreateUser(r) /\ InCreateUser(q)
        /\ rwReaders = { CuTask(r), CuTask(q) }
        /\ rwWriter = NoTask

\* C9: in the create_user route the permission check runs only after
\* validate() succeeded and system.create_user only after both succeeded; a
\* request that failed validation or the permission check never invoked
\* system.create_user, and the users are exactly those of the create_user
\* requests that returned Ok.
C9_CreateOnlyAfterValidateAndPermission ==
    /\ \A r \in Requests :
          cu_req[r].route = "create_user" =>
              /\ cu_pc[r] = "locked" => cu_req[r].valid
              /\ cu_called[r] => (cu_req[r].valid /\ cu_req[r].permitted)
              /\ cu_result[r] \in { "validate", "permission" } => ~cu_called[r]
              /\ cu_result[r] = "permission" => cu_req[r].valid
    /\ users = { cu_req[r].username :
                    r \in { q \in Requests : /\ cu_req[q].route = "create_user"
                                             /\ cu_result[q] = "Ok" } }

\* a valid create_user request was refused by the permissioner and created
\* nothing; another one, for the same username, created the user
C9_Witness ==
    \E r, q \in Requests :
        /\ cu_req[r].route = "create_user" /\ cu_req[q].route = "create_user"
        /\ cu_req[r].username = cu_req[q].username
        /\ cu_result[r] = "permission" /\ ~cu_called[r]
        /\ cu_result[q] = "Ok" /\ cu_called[q]
        /\ users = { cu_req[q].username }

----------------------------------------------------------------------------
(* Consumer offsets: the claims.                                            *)

\* C10: after any appends, store_consumer_offset calls and purges, every
\* stored consumer offset o is within 0..current_offset of the partition.
C10_StoredOffsetsWithinPartition ==
    \A c \in DOMAIN consumer_offsets :
        /\ 0 <= consumer_offsets[c]
        /\ consumer_offsets[c] <= current_offset(segments)

\* a stored offset lies beyond the partition's current_offset after a purge
C10_Witness ==
    /\ \E c \in DOMAIN consumer_offsets :
          consumer_offsets[c] > current_offset(segments)
    /\ ActiveSegment(segments).messages = 0

----------------------------------------------------------------------------
(* Configuration validation: the claims.                                    *)

\* the cap as a u64
CapAsU64 == U64(0, 0, MAX_SIZE_BYTES[1], MAX_SIZE_BYTES[2])

\* C11: SegmentConfig::validate returns InvalidConfiguration for every
\* configured segment size greater than segment::MAX_SIZE_BYTES, sizes of 2^32
\* bytes and above included.
C11_OversizedSegmentRefused ==
    cfg_op = "SegmentConfig" =>
        (U64Lt(CapAsU64, cfg.segment_size) => cfg_res = "InvalidConfiguration")

C11_Witness ==
    /\ cfg_op = "SegmentConfig"
    /\ cfg.segment_size = U64(0, 1, 0, 0)
    /\ cfg_res = "Ok"

SubValidatorsPassed(c) ==
    /\ c.data_maintenance = "Ok"
    /\ c.personal_access_token = "Ok"
    /\ SegmentConfig_validate(c.segment_size) = "Ok"
    /\ c.cache = "Ok"
    /\ c.telemetry = "Ok"

TopicSmallerThanSegment(c) ==
    \/ c.topic_max_size.kind = "Custom" /\ U64Lt(c.topic_max_size.bytes, c.segment_size)
    \/ c.topic_max_size.kind = "Unlimited" /\ U64Lt(U64_MAX, c.segment_size)

RefusedCombination(c) ==
    \/ c.topic_max_size.kind = "ServerDefault"
    \/ c.message_expiry = "ServerDefault"
    \/ TopicSmallerThanSegment(c)

\* C12: once the sub-validators have passed, ServerConfig::validate returns
\* InvalidConfiguration whenever topic.max_size is ServerDefault, or
\* segment.message_expiry is ServerDefault, or the effective topic size is
\* smaller than the segment size; and it returns Ok only when the
\* sub-validators passed and none of these holds.
C12_ServerDefaultAndSmallTopicRefused ==
    cfg_op = "ServerConfig" =>
        /\ (SubValidatorsPassed(cfg) /\ RefusedCombination(cfg))
              => cfg_res = "InvalidConfiguration"
        /\ cfg_res = "Ok" => (SubValidatorsPassed(cfg) /\ ~RefusedCombination(cfg))

C12_Witness ==
    /\ cfg_op = "ServerConfig"
    /\ SubValidatorsPassed(cfg)
    /\ cfg.topic_max_size.kind = "Custom"
    /\ cfg.message_expiry = "NeverExpire"
    /\ ~cfg.http_enabled
    /\ U64Lt(cfg.topic_max_size.bytes, cfg.segment_size)
    /\ cfg_res = "InvalidConfiguration"

----------------------------------------------------------------------------
(* The disk archiver: the claims.                                           *)

C17_ArchivedMeansCopied ==
    ar_pc # "off" =>
        /\ (ar_pc = "returned" /\ ar_result = ArOk) =>
              \A i \in 1..Len(ar_files) : is_archived(fs, ar_files[i], ar_base)
        /\ \A f \in Files, b \in Bases :
              is_archived(fs, f, b) => << f, b >> \in ar_copied
        /\ \A f \in ar_deleted :
              \E b \in Bases :
                  /\ DestinationPath(f, b) # SourcePath(f)
                  /\ fs[DestinationPath(f, b)] = "data"

C17_Witness ==
    /\ ar_pc = "idle"
    /\ ar_copied = {}
    /\ is_archived(fs, "/c.log", "")

----------------------------------------------------------------------------
(* The response decoders: the claims.                                       *)

\* C14: map_offset of a 12-byte payload is Ok, with consumer_id the
\* little-endian u32 of bytes 0..4 and offset the little-endian u64 of bytes
\* 4..12: what was encoded comes back, and consumer_id 7 with offset 99 is
\* the payload 07 00 00 00 63 00 00 00 00 00 00 00.
C14_OffsetLayout ==
    (mp_op = "map_offset" /\ Len(mp_payload) = 12) =>
        /\ mp_res.tag = "Ok"
        /\ mp_res.value.consumer_id = U32(LimbAt(mp_payload, 3), LimbAt(mp_payload, 1))
        /\ mp_res.value.offset = U64(LimbAt(mp_payload, 11), LimbAt(mp_payload, 9),
                                     LimbAt(mp_payload, 7), LimbAt(mp_payload, 5))
        /\ mp_in.kind = "offset" =>
              /\ mp_res.value.consumer_id = mp_in.consumer_id
              /\ mp_res.value.offset = mp_in.offset
              /\ (mp_in.consumer_id = U32(0, 7) /\ mp_in.offset = U64(0, 0, 0, 99))
                    => mp_payload = << 7, 0, 0, 0, 99, 0, 0, 0, 0, 0, 0, 0 >>

C14_Witness ==
    /\ mp_op = "map_offset"
    /\ mp_in.kind = "offset"
    /\ mp_payload = << 7, 0, 0, 0, 99, 0, 0, 0, 0, 0, 0, 0 >>
    /\ mp_res = MpOk([consumer_id |-> U32(0, 7), offset |-> U64(0, 0, 0, 99)])

\* map_to_stream and map_to_topic decode the same id, second field, name and
\* byte count at every position of the payload
MapToStreamAgreesWithMapToTopic ==
    \A position \in 0..Len(mp_payload) :
        LET a == map_to_stream(mp_payload, position)
            b == map_to_topic(mp_payload, position)
        IN  /\ a.tag = b.tag
            /\ a.tag = "Ok" =>
                  /\ a.value.item.id = b.value.item.id
                  /\ a.value.item.topics_count = b.value.item.partitions_count
                  /\ a.value.item.name = b.value.item.name
                  /\ a.value.read_bytes = b.value.read_bytes

\* C15: map_to_stream and map_to_topic decode the same at every position, and
\* the partitions_count of the TopicDetails map_topic returns is the
\* partitions count of the topic's wire header (bytes 4..8).
C15_TopicDecodedAsTopic ==
    /\ MapToStreamAgreesWithMapToTopic
    /\ (mp_op = "map_topic" /\ mp_res.tag = "Ok") =>
          mp_res.value.partitions_count =
              U32(LimbAt(mp_payload, 7), LimbAt(mp_payload, 5))

C15_Witness ==
    /\ mp_op = "map_topic"
    /\ mp_in.kind = "topic"
    /\ mp_res.tag = "Ok"
    /\ mp_in.topic.partitions_count = U32(0, 2)
    /\ Len(mp_in.partitions) = 1
    /\ mp_res.value.partitions_count = U32(0, 1)

Ascending(messages) ==
    \A i \in 1..(Len(messages) - 1) :
        ~LimbsLt(messages[i + 1].offset, messages[i].offset, 1)

\* C16: for a payload of a 4-byte prefix, n complete message records and a
\* truncated tail, map_messages returns Ok with exactly the n complete
\* messages, in ascending offset order.
C16_EveryCompleteMessageReturned ==
    (mp_op = "map_messages" /\ mp_in.kind = "messages") =>
        /\ mp_res.tag = "Ok"
        /\ Len(mp_res.value) = Len(mp_in.messages)
        /\ \E perm \in Permutations(1..Len(mp_in.messages)) :
              \A i \in 1..Len(mp_in.messages) :
                  mp_res.value[i] = mp_in.messages[perm[i]]
        /\ Ascending(mp_res.value)

C16_Witness ==
    /\ mp_op = "map_messages"
    /\ mp_in.kind = "messages"
    /\ mp_in.tail = 0
    /\ Len(mp_in.messages) = 2
    /\ mp_in.messages[2].payload = << >>
    /\ mp_res.tag = "Ok"
    /\ Len(mp_res.value) = 1

\* C20: map_offset of a payload shorter than 12 bytes, and map_messages of a
\* non-empty payload shorter than 40 bytes, return Err.
C20_ShortPayloadIsAnError ==
    /\ (mp_op = "map_offset" /\ Len(mp_payload) < 12) => mp_res.tag = "Err"
    /\ (mp_op = "map_messages" /\ Len(mp_payload) > 0
            /\ Len(mp_payload) < 4 + PROPERTIES_SIZE) => mp_res.tag = "Err"

C20_Witness ==
    /\ mp_op = "map_offset"
    /\ Len(mp_payload) = 11
    /\ mp_res.tag = "Panic"

----------------------------------------------------------------------------
(* The read-path handlers and the lock: the claims.                         *)

SoInSystem(h) == so_pc[h] \in { "locked", "valid", "stored" }

FlInSystem(h) == fl_pc[h] \in { "locked", "flushed" }

ReadGuardHeldThroughout ==
    /\ \A h \in DOMAIN so_pc :
          /\ SoInSystem(h) => (SoTask(h) \in rwReaders /\ rwWriter = NoTask)
          /\ so_pc[h] = "done" => SoTask(h) \notin rwReaders
          /\ so_sent[h] <= 1
          /\ so_sent[h] = 1 <=> so_result[h] = "Ok"
    /\ \A h \in DOMAIN fl_pc :
          /\ FlInSystem(h) => (FlTask(h) \in rwReaders /\ rwWriter = NoTask)
          /\ fl_pc[h] = "done" => FlTask(h) \notin rwReaders
          /\ fl_sent[h] <= 1
          /\ fl_sent[h] = 1 <=> fl_result[h] = "Ok"

OkSentAfterSuccessOnly ==
    /\ \A h \in DOMAIN so_pc :
          so_sent'[h] # so_sent[h] =>
              (so_pc[h] = "stored" /\ so_sent[h] = 0 /\ SoTask(h) \in rwReaders)
    /\ \A h \in DOMAIN fl_pc :
          fl_sent'[h] # fl_sent[h] =>
              (fl_pc[h] = "flushed" /\ fl_sent[h] = 0 /\ FlTask(h) \in rwReaders)

\* C18: the store-consumer-offset and flush-unsaved-buffer handlers hold the
\* broker read guard from before the system operation until they return; each
\* sends the empty OK response at most once, only from the point the system
\* operation has returned success, and returns Ok exactly when it sent it.
C18_ReadGuardHeldAndOkAfterSuccess ==
    [](ReadGuardHeldThroughout) /\ [][OkSentAfterSuccessOnly]_vars

C18_Witness ==
    /\ \E h \in DOMAIN so_pc : so_sent[h] = 1 /\ so_result[h] = "Ok"
    /\ \E h \in DOMAIN fl_pc : fl_sent[h] = 1 /\ fl_result[h] = "Ok"

AllReturned ==
    /\ \A h \in DOMAIN cs_pc : cs_pc[h] = "done"
    /\ \A h \in DOMAIN so_pc : so_pc[h] = "done"
    /\ \A h \in DOMAIN fl_pc : fl_pc[h] = "done"

LockFree == rwWriter = NoTask /\ rwReaders = {} /\ rwQueue = << >>

NoReadRequestUnderWriteGuard ==
    \A h \in DOMAIN cs_pc :
        cs_pc[h] \in { "created", "wait_read", "reading", "applied" }
            => rwWriter # CsTask(h)

\* C19: with create-stream, store-consumer-offset and flush-unsaved-buffer
\* handlers over one fair readers-writer lock, no state is a deadlock (some
\* handler can step unless all have returned), the create-stream handler never
\* awaits the read side while it holds the write side, and eventually every
\* handler has returned and the lock is free.
C19_NoDeadlockAllReturn ==
    /\ [](AllReturned \/ ENABLED MixedNext)
    /\ [](NoReadRequestUnderWriteGuard)
    /\ <>[](AllReturned /\ LockFree)

C19_Witness ==
    /\ DOMAIN cs_pc # {}
    /\ AllReturned
    /\ LockFree
    /\ \E h \in DOMAIN cs_pc : cs_result[h] = "Ok"
    /\ \E h \in DOMAIN so_pc : so_result[h] = "Ok"
    /\ \E h \in DOMAIN fl_pc : fl_result[h] = "Ok"

============================================================================
